---- MODULE Spec2Model ----
(***************************************************************************)
(* Expense categorization engine of generative-ai-budget-tracker.          *)
(*                                                                         *)
(* The orchestrator is EnhancedExpenseCategorizer.categorize_expense       *)
(* (backend/app/ml_categorizer.py): local zero-shot model, remote          *)
(* inference API with retries, per-user pattern matching, TF-IDF           *)
(* similarity and the weighted keyword scorer.  One call is a sequence of  *)
(* stage steps; the local model, the HTTP service and the vectorizer are   *)
(* the environment and answer nondeterministically.                        *)
(*                                                                         *)
(* Confidences and similarities are integers in thousandths (0.6 = 600);   *)
(* rule scores are integers in halves (3.0 = 6).  A description is the     *)
(* sequence of its whitespace-separated tokens, so the empty string and a  *)
(* whitespace-only string are both <<>>.  An optional value is <<>> (None) *)
(* or <<v>>.                                                               *)
(*                                                                         *)
(* The application (backend/app/main.py) serves categorizations through    *)
(* cached_categorize: the _TTLCache result cache in front of the           *)
(* categorizer of backend/services/ml_categorizer.py, which has its own    *)
(* category_cache and pattern store.  That path is the second state        *)
(* machine of the module (MainSpec); each specification leaves the other   *)
(* machine's variables as constructed.                                     *)
(***************************************************************************)
EXTENDS Integers, Sequences, FiniteSets, TLC

\* ------------------------------------------------------------------ bounds
MaxCalls == 2          \* categorize calls per behaviour

\* --------------------------------------------------------------- constants
None == <<>>
Some(v) == <<v>>

MaxAttempts == 3       \* for attempt in range(3)
HistoryCap == 100      \* last 100 patterns per user

\* self.categories / self.category_list, in declaration order
category_list ==
  << "Food & Dining", "Transportation", "Entertainment", "Shopping",
     "Utilities", "Healthcare", "Housing", "Education", "Travel",
     "Business", "Other" >>

Categories == { category_list[i] : i \in 1..Len(category_list) }

\* enhanced_patterns of _classify_with_enhanced_rules, in declaration order
enhanced_patterns ==
  << [category |-> "Food & Dining",
      high   |-> <<"restaurant", "dining", "food", "meal">>,
      medium |-> <<"coffee", "lunch", "dinner", "breakfast", "eat">>,
      low    |-> <<"starbucks", "mcdonald", "pizza", "burger", "cafe", "grocery">>],
     [category |-> "Transportation",
      high   |-> <<"uber", "lyft", "taxi", "gas", "fuel">>,
      medium |-> <<"transport", "bus", "train", "subway", "parking">>,
      low    |-> <<"toll", "car", "vehicle", "metro">>],
     [category |-> "Entertainment",
      high   |-> <<"netflix", "spotify", "movie", "entertainment">>,
      medium |-> <<"cinema", "theater", "music", "streaming">>,
      low    |-> <<"game", "youtube", "subscription">>],
     [category |-> "Shopping",
      high   |-> <<"amazon", "shopping", "store", "purchase">>,
      medium |-> <<"clothes", "retail", "mall", "online">>,
      low    |-> <<"buy", "clothing", "shoes">>],
     [category |-> "Utilities",
      high   |-> <<"electric", "water", "internet", "phone">>,
      medium |-> <<"utility", "cable", "wifi", "cellular">>,
      low    |-> <<"mobile", "landline">>] >>

\* ------------------------------------------------------------ input domains
\* Arguments of the calls.  A description is built from raw tokens: "Uber"
\* differs from "uber" only in case, "123" is a run of digits, "!" is
\* punctuation.
Inputs ==
  { [description |-> <<>>, amount |-> None, user_id |-> None],
    [description |-> <<>>, amount |-> Some(5), user_id |-> None],
    [description |-> <<"123">>, amount |-> Some(600), user_id |-> Some("user2")],
    [description |-> <<"Uber", "ride">>, amount |-> None, user_id |-> Some("user1")],
    [description |-> <<"ride", "uber", "123">>, amount |-> Some(5), user_id |-> Some("user1")],
    [description |-> <<"theater">>, amount |-> Some(0), user_id |-> None],
    [description |-> <<"xyzzy">>, amount |-> Some(600), user_id |-> Some("user1")],
    [description |-> <<"coffee", "!">>, amount |-> Some(100), user_id |-> None] }

Users == { "user1", "user2" }

\* Ranked (label, score) lists a zero-shot classifier answers with: labels
\* are candidate labels, scores are probabilities in descending order.
HighRanking ==
  << <<"Travel", 930>>, <<"Other", 40>>, <<"Transportation", 20>>, <<"Shopping", 10>> >>
EdgeRanking == << <<"Other", 600>>, <<"Travel", 400>> >>
LowRanking ==
  << <<"Travel", 250>>, <<"Other", 250>>, <<"Housing", 250>>, <<"Business", 250>> >>

\* best cosine similarity computed by the vectorizer
Similarities == { 300, 310, 1000 }

\* what one requests.post yields: a status code with a body, or a raised
\* requests.RequestException (timeout, connection error; status 0 here)
HttpResponses ==
  { [status |-> 200, kind |-> "labels_scores", body |-> r] :
      r \in { HighRanking, EdgeRanking, LowRanking } }
    \cup { [status |-> 200, kind |-> "missing_fields", body |-> <<>>],
           [status |-> 200, kind |-> "invalid_json", body |-> <<>>],
           [status |-> 503, kind |-> "status", body |-> <<>>],
           [status |-> 500, kind |-> "status", body |-> <<>>],
           [status |-> 504, kind |-> "status", body |-> <<>>],
           [status |-> 0, kind |-> "timeout", body |-> <<>>] }

\* what the local pipeline yields: a ranking, a dict without labels/scores,
\* or a raised exception
LocalOutcomes ==
  { [kind |-> "labels_scores", body |-> r] : r \in { HighRanking, EdgeRanking } }
    \cup { [kind |-> "missing_fields", body |-> <<>>],
           [kind |-> "raise", body |-> <<>>] }

\* what the TF-IDF computation yields: the best similarity with its
\* category, or a raised exception
SimilarityOutcomes ==
  { [kind |-> "best", similarity |-> x, category |-> "Entertainment"] :
      x \in Similarities }
    \cup { [kind |-> "raise", similarity |-> 0, category |-> "Other"] }

\* --------------------------------------------------------- text operations
\* str.lower() of one token
Lower(tok) == IF tok = "Uber" THEN "uber" ELSE tok

\* tokens that re.sub(r'[^\w\s]', ' ') and re.sub(r'\d+', '') turn into
\* whitespace or the empty string
IsNoise(tok) == tok \in { "123", "!" }

RECURSIVE CleanTokens(_)
CleanTokens(toks) ==
  IF toks = <<>> THEN <<>>
  ELSE IF IsNoise(Head(toks)) THEN CleanTokens(Tail(toks))
  ELSE <<Lower(Head(toks))>> \o CleanTokens(Tail(toks))

\* _preprocess_description: punctuation and digits removed, whitespace
\* collapsed, stripped, lowercased
_preprocess_description(description) == CleanTokens(description)

\* not description or not description.strip()
IsBlank(description) == description = <<>>

\* the keywords of enhanced_patterns that occur as substrings of a word
Substrings(word) ==
  CASE word = "uber"    -> { "uber" }
    [] word = "coffee"  -> { "coffee" }
    [] word = "theater" -> { "eat", "theater" }
    [] word = "food"    -> { "food" }
    [] word = "lyft"    -> { "lyft" }
    [] word = "restaurant" -> { "restaurant" }
    [] OTHER            -> { }

\* keyword in desc_lower
KeywordIn(keyword, desc) ==
  \E i \in 1..Len(desc) : keyword \in Substrings(Lower(desc[i]))

WordSet(desc) == { Lower(desc[i]) : i \in 1..Len(desc) }

\* _calculate_text_similarity: Jaccard similarity of the word sets
_calculate_text_similarity(text1, text2) ==
  LET words1 == WordSet(text1)
      words2 == WordSet(text2)
  IN  IF words1 = {} \/ words2 = {} THEN 0
      ELSE (Cardinality(words1 \cap words2) * 1000)
             \div Cardinality(words1 \cup words2)

Min(a, b) == IF a <= b THEN a ELSE b

\* ------------------------------------------------------------- rule scorer
\* number of keywords of one tier list found in the description
Matches(keywords, desc) ==
  Cardinality({ i \in 1..Len(keywords) : KeywordIn(keywords[i], desc) })

\* weight = {'high': 3.0, 'medium': 2.0, 'low': 1.0}, in halves
PatternScore(entry, desc) ==
  6 * Matches(entry.high, desc) + 4 * Matches(entry.medium, desc)
    + 2 * Matches(entry.low, desc)

\* category_scores after the keyword loop: a defaultdict gets a key only
\* when a keyword of that category matched, in declaration order
KeywordScores(patterns, desc) ==
  SelectSeq([ i \in 1..Len(patterns) |->
                [category |-> patterns[i].category,
                 score |-> PatternScore(patterns[i], desc)] ],
            LAMBDA e : e.score > 0)

\* category_scores[cat] += inc on a defaultdict(float)
AddScore(scores, cat, inc) ==
  IF \E i \in 1..Len(scores) : scores[i].category = cat
  THEN [ i \in 1..Len(scores) |->
           IF scores[i].category = cat
           THEN [scores[i] EXCEPT !.score = @ + inc] ELSE scores[i] ]
  ELSE Append(scores, [category |-> cat, score |-> inc])

\* variant: the large-amount bonus goes to a label outside category_list
AmountAdjustUnlisted(scores, amount) ==
  IF amount = None THEN scores
  ELSE LET a == amount[1]
       IN  IF a = 0 THEN scores
           ELSE IF a > 500
                THEN AddScore(AddScore(scores, "Rent", 2), "Travel", 1)
           ELSE IF a < 10
                THEN AddScore(AddScore(scores, "Food & Dining", 1), "Transportation", 1)
           ELSE scores

\* "if amount:" is false for None and for 0
AmountAdjust(scores, amount) ==
  IF amount = None THEN scores
  ELSE LET a == amount[1]
       IN  IF a = 0 THEN scores
           ELSE IF a > 500
                THEN AddScore(AddScore(scores, "Housing", 2), "Travel", 1)
           ELSE IF a < 10
                THEN AddScore(AddScore(scores, "Food & Dining", 1), "Transportation", 1)
           ELSE scores

category_scores(desc, amount) ==
  AmountAdjust(KeywordScores(enhanced_patterns, desc), amount)

\* variant: max keeps the last of the items with the largest score
MaxIndexLast(scores) ==
  CHOOSE i \in 1..Len(scores) :
    /\ \A j \in 1..Len(scores) : scores[j].score <= scores[i].score
    /\ \A j \in (i + 1)..Len(scores) : scores[j].score < scores[i].score

\* max(items, key=score): the first item with the largest score
MaxIndex(scores) ==
  CHOOSE i \in 1..Len(scores) :
    /\ \A j \in 1..Len(scores) : scores[j].score <= scores[i].score
    /\ \A j \in 1..(i - 1) : scores[j].score < scores[i].score

\* position of item i in sorted(items, key=score, reverse=True): the sort is
\* stable, so equal scores keep their insertion order
Rank(scores, i) ==
  1 + Cardinality({ j \in 1..Len(scores) : scores[j].score > scores[i].score })
    + Cardinality({ j \in 1..(i - 1) : scores[j].score = scores[i].score })

SortedDesc(scores) ==
  [ r \in 1..Len(scores) |->
      scores[CHOOSE i \in 1..Len(scores) : Rank(scores, i) = r] ]

\* variant: the slice starts at the best item, seq[0:3]
Slice03(seq) == SubSeq(seq, 1, Min(3, Len(seq)))

\* seq[1:3]
Slice13(seq) ==
  IF Len(seq) <= 1 THEN <<>> ELSE SubSeq(seq, 2, Min(3, Len(seq)))

\* the result built from category_scores: best category, capped confidence,
\* the next two categories as alternatives; Other at 0.1 without any score
RuleResult(scores) ==
  IF scores # <<>>
  THEN LET best == scores[MaxIndex(scores)]
           alts == Slice13(SortedDesc(scores))
       IN  [ category |-> best.category,
             confidence |-> Min(best.score * 100, 700),
             alternatives |->
               [ i \in 1..Len(alts) |->
                   [category |-> alts[i].category,
                    confidence |-> alts[i].score * 100] ] ]
  ELSE [ category |-> "Other", confidence |-> 100, alternatives |-> <<>> ]

\* _classify_with_enhanced_rules: category_scores is computed once
_classify_with_enhanced_rules(desc, amount) ==
  CHOOSE r \in { RuleResult(scores) : scores \in { category_scores(desc, amount) } } :
    TRUE

VARIABLES
  classifier,             \* "unset" (attribute never assigned), "none", "loaded"
  hf_api_key,             \* HUGGINGFACE_API_KEY is set
  SKLEARN_AVAILABLE,      \* scikit-learn imported, vectorizer built
  user_patterns,          \* user -> list of (description, category)
  total_classifications,  \* classification_stats["total_classifications"]
  pc,                     \* position of the call in progress
  description, amount, user_id,   \* arguments of the call
  clean_description,
  result,                 \* the running-best result dict
  ml_result,              \* what _classify_with_local_model returned
  api_result,             \* what _classify_with_api returned
  attempts,               \* HTTP requests sent by the running _classify_with_api
  http_log,               \* the responses it received, in order
  consulted,              \* stages invoked by this call, in order, each with
                          \* its outcome: "result", "none", "failed", "pending"
  producer                \* the stage whose output the result holds

vars ==
  << classifier, hf_api_key, SKLEARN_AVAILABLE, user_patterns,
     total_classifications, pc, description, amount, user_id,
     clean_description, result, ml_result, api_result, attempts, http_log,
     consulted, producer >>

config == << classifier, hf_api_key, SKLEARN_AVAILABLE >>
args == << description, amount, user_id, clean_description >>
api_locals == << attempts, http_log >>

\* the result dict categorize_expense starts from
InitialResult ==
  [ category |-> "Other", confidence |-> 0, method |-> "fallback",
    alternatives |-> <<>> ]

\* variant: the method field is not reassigned
UpdateKeepsMethod(res, stage_result, method) ==
  [ category |-> stage_result.category,
    confidence |-> stage_result.confidence,
    method |-> res.method,
    alternatives |-> stage_result.alternatives ]

\* result.update(stage_result); result["method"] = method
Update(res, stage_result, method) ==
  [ category |-> stage_result.category,
    confidence |-> stage_result.confidence,
    method |-> method,
    alternatives |-> stage_result.alternatives ]

\* the dict built from a well-formed labels/scores answer
FromRanking(r) ==
  [ category |-> r[1][1],
    confidence |-> r[1][2],
    alternatives |->
      LET alts == Slice13(r)
      IN  [ i \in 1..Len(alts) |->
              [category |-> alts[i][1], confidence |-> alts[i][2]] ] ]

\* Strategy 1 result is taken: confidence > 0.6
LocalAccept(ret) == ret # None /\ ret[1].confidence > 600

\* variant: the API is called whenever a key is configured
ApiGateKeyOnly(res, key) == key

\* Strategy 2 runs: confidence < 0.6 and self.hf_api_key
ApiGate(res, key) == res.confidence < 600 /\ key

\* Strategy 3 runs: confidence < 0.5 and user_id
PatternGate(res, uid) == res.confidence < 500 /\ uid # None

\* Strategy 4 runs: confidence < 0.4 and SKLEARN_AVAILABLE
SemanticGate(res, sklearn) == res.confidence < 400 /\ sklearn

\* variant: the rule scorer is never reached
RulesGateNever(res) == FALSE

\* variant: the rule scorer runs in the first call of the instance only
RulesGateFirstCallOnly(res) == res.confidence < 300 /\ total_classifications = 0

\* Strategy 5 runs: confidence < 0.3
RulesGate(res) == res.confidence < 300

\* variant: every identified call is learned, whatever its confidence
LearnGateAnyConfidence(res, uid) == uid # None

\* learning runs: user_id and confidence > 0.5
LearnGate(res, uid) == uid # None /\ res.confidence > 500

\* "x_result and x_result["confidence"] > result["confidence"]"
Accept(ret, res) == ret # None /\ ret[1].confidence > res.confidence

\* record of the stages a call has consulted and of what they gave
Consult(stage, outcome) == [stage |-> stage, outcome |-> outcome]

Stages(seq) == [ i \in 1..Len(seq) |-> seq[i].stage ]

Answered(seq) ==
  { seq[i].stage : i \in { j \in 1..Len(seq) : seq[j].outcome = "result" } }

Failed(seq) ==
  { seq[i].stage : i \in { j \in 1..Len(seq) : seq[j].outcome = "failed" } }

\* variant: the handler is "except ValueError"
ExceptValueErrorOnly(exc) == exc = "ValueError"

\* "except Exception as e" of categorize_expense catches every exception
\* raised inside its try block
ExceptException(exc) == exc \in { "AttributeError", "ValueError", "RuntimeError" }

\* __init__ and _initialize_models: the classifier attribute is assigned
\* only when transformers is importable (None if loading the model fails)
Init ==
  /\ classifier \in { "unset", "none", "loaded" }
  /\ hf_api_key \in BOOLEAN
  /\ SKLEARN_AVAILABLE \in BOOLEAN
  /\ user_patterns = [ u \in Users |-> <<>> ]
  /\ total_classifications = 0
  /\ pc = "idle"
  /\ description = <<>>
  /\ amount = None
  /\ user_id = None
  /\ clean_description = <<>>
  /\ result = InitialResult
  /\ ml_result = None
  /\ api_result = None
  /\ attempts = 0
  /\ http_log = <<>>
  /\ consulted = <<>>
  /\ producer = "initial"

\* categorize_expense is entered: preprocessing and the initial result
Call(in) ==
  /\ pc \in { "idle", "done", "raised" }
  /\ total_classifications < MaxCalls
  /\ description' = in.description
  /\ amount' = in.amount
  /\ user_id' = in.user_id
  /\ clean_description' = _preprocess_description(in.description)
  /\ result' = InitialResult
  /\ ml_result' = None
  /\ api_result' = None
  /\ attempts' = 0
  /\ http_log' = <<>>
  /\ consulted' = <<>>
  /\ producer' = "initial"
  /\ pc' = "local"
  /\ UNCHANGED << config, user_patterns, total_classifications >>

\* _classify_with_local_model: every exception is caught and gives None
_classify_with_local_model(outcome) ==
  IF outcome.kind = "labels_scores" THEN Some(FromRanking(outcome.body)) ELSE None

\* Strategy 1.  Reading self.classifier raises AttributeError when the
\* attribute was never assigned; control then passes to the except branch
\* of categorize_expense.
LocalStage(outcome) ==
  /\ pc = "local"
  /\ IF classifier = "unset"
     THEN /\ pc' = IF ExceptException("AttributeError") THEN "error" ELSE "raised"
          /\ UNCHANGED << result, ml_result, consulted, producer >>
     ELSE IF classifier = "none"
     THEN /\ pc' = "api"
          /\ UNCHANGED << result, ml_result, consulted, producer >>
     ELSE LET ret == _classify_with_local_model(outcome)
              accepted == LocalAccept(ret)
          IN  /\ ml_result' = ret
              /\ consulted' = Append(consulted,
                   Consult("local", IF ret # None THEN "result"
                                    ELSE IF outcome.kind = "raise" THEN "failed"
                                    ELSE "none"))
              /\ result' = IF accepted THEN Update(result, ret[1], "local_ml")
                           ELSE result
              /\ producer' = IF accepted THEN "local" ELSE producer
              /\ pc' = "api"
  /\ UNCHANGED << config, args, user_patterns, total_classifications,
                  api_result, api_locals >>

\* Strategy 2, the guard: _classify_with_api is entered only below 0.6 and
\* with an API key
ApiStage ==
  /\ pc = "api"
  /\ IF ApiGate(result, hf_api_key)
     THEN /\ pc' = "http"
          /\ consulted' = Append(consulted, Consult("api", "pending"))
     ELSE /\ pc' = "pattern"
          /\ UNCHANGED consulted
  /\ UNCHANGED << config, args, user_patterns, total_classifications,
                  result, ml_result, api_result, api_locals, producer >>

\* variant: a 503 leaves the loop like any other status
RetriedExceptionsOnly(resp, json_error_is_request_exception) ==
  \/ resp.kind = "timeout"
  \/ resp.kind = "invalid_json" /\ json_error_is_request_exception

\* variant: every 5xx status is retried
RetriedAny5xx(resp, json_error_is_request_exception) ==
  \/ resp.status >= 500
  \/ resp.kind = "timeout"
  \/ resp.kind = "invalid_json" /\ json_error_is_request_exception

\* the attempt ends in "continue" (503) or in the RequestException handler
Retried(resp, json_error_is_request_exception) ==
  \/ resp.status = 503
  \/ resp.kind = "timeout"
  \/ resp.kind = "invalid_json" /\ json_error_is_request_exception

\* One iteration of the retry loop of _classify_with_api; when the loop is
\* left the function returns.  response.json() on an undecodable body raises
\* a RequestException subclass or a plain ValueError, depending on the
\* installed requests.
HttpAttempt(resp, json_error_is_request_exception) ==
  /\ pc = "http"
  /\ attempts < MaxAttempts
  /\ attempts' = attempts + 1
  /\ http_log' = Append(http_log, resp)
  /\ IF Retried(resp, json_error_is_request_exception) /\ attempts + 1 < MaxAttempts
     THEN UNCHANGED << pc, api_result, consulted >>
     ELSE LET ret == IF resp.status = 200 /\ resp.kind = "labels_scores"
                     THEN Some(FromRanking(resp.body)) ELSE None
          IN  /\ api_result' = ret
              /\ consulted' = [ consulted EXCEPT ![Len(consulted)] =
                     Consult("api", IF ret # None THEN "result" ELSE "failed") ]
              /\ pc' = "api_return"
  /\ UNCHANGED << config, args, user_patterns, total_classifications,
                  result, ml_result, producer >>

\* back in categorize_expense: the API result replaces a less confident
\* running result; the locals of _classify_with_api are gone
ApiMerge ==
  /\ pc = "api_return"
  /\ LET accepted == Accept(api_result, result)
     IN  /\ result' = IF accepted THEN Update(result, api_result[1], "api_ml")
                      ELSE result
         /\ producer' = IF accepted THEN "api" ELSE producer
  /\ attempts' = 0
  /\ http_log' = <<>>
  /\ pc' = "pattern"
  /\ UNCHANGED << config, args, user_patterns, total_classifications,
                  ml_result, api_result, consulted >>

\* similarities of _classify_with_patterns summed per category, in the
\* order the categories are first met in the user's history
RECURSIVE SimilarScores(_, _)
SimilarScores(history, desc) ==
  IF history = <<>> THEN <<>>
  ELSE LET last == history[Len(history)]
           before == SimilarScores(SubSeq(history, 1, Len(history) - 1), desc)
           similarity == _calculate_text_similarity(desc, last.description)
       IN  IF similarity > 700
           THEN AddScore(before, last.category, similarity)
           ELSE before

\* _classify_with_patterns
_classify_with_patterns(patterns, desc, user) ==
  LET scores == SimilarScores(patterns[user], desc)
  IN  IF scores = <<>> THEN None
      ELSE LET best == scores[MaxIndex(scores)]
           IN  Some([ category |-> best.category,
                      confidence |-> Min(best.score, 900),
                      alternatives |-> <<>> ])

\* Strategy 3
PatternStage ==
  /\ pc = "pattern"
  /\ IF PatternGate(result, user_id)
     THEN LET ret == _classify_with_patterns(user_patterns, clean_description,
                                             user_id[1])
              accepted == Accept(ret, result)
          IN  /\ consulted' = Append(consulted,
                   Consult("pattern", IF ret # None THEN "result" ELSE "none"))
              /\ result' = IF accepted
                           THEN Update(result, ret[1], "pattern_learning")
                           ELSE result
              /\ producer' = IF accepted THEN "pattern" ELSE producer
     ELSE UNCHANGED << result, consulted, producer >>
  /\ pc' = "semantic"
  /\ UNCHANGED << config, args, user_patterns, total_classifications,
                  ml_result, api_result, api_locals >>

\* _classify_with_similarity: None below the 0.3 threshold or on exception
_classify_with_similarity(outcome) ==
  IF outcome.kind = "best" /\ outcome.similarity > 300
  THEN Some([ category |-> outcome.category,
              confidence |-> Min((outcome.similarity * 12) \div 10, 800),
              alternatives |-> <<>> ])
  ELSE None

\* Strategy 4
SemanticStage(outcome) ==
  /\ pc = "semantic"
  /\ IF SemanticGate(result, SKLEARN_AVAILABLE)
     THEN LET ret == _classify_with_similarity(outcome)
              accepted == Accept(ret, result)
          IN  /\ consulted' = Append(consulted,
                   Consult("semantic", IF ret # None THEN "result"
                                       ELSE IF outcome.kind = "raise" THEN "failed"
                                       ELSE "none"))
              /\ result' = IF accepted
                           THEN Update(result, ret[1], "semantic_similarity")
                           ELSE result
              /\ producer' = IF accepted THEN "semantic" ELSE producer
     ELSE UNCHANGED << result, consulted, producer >>
  /\ pc' = "rules"
  /\ UNCHANGED << config, args, user_patterns, total_classifications,
                  ml_result, api_result, api_locals >>

\* Strategy 5: below 0.3 the rule result replaces the running result
RulesStage ==
  /\ pc = "rules"
  /\ IF RulesGate(result)
     THEN /\ consulted' = Append(consulted, Consult("rules", "result"))
          /\ result' = Update(result,
                              _classify_with_enhanced_rules(clean_description, amount),
                              "enhanced_rules")
          /\ producer' = "rules"
     ELSE UNCHANGED << result, consulted, producer >>
  /\ pc' = "learn"
  /\ UNCHANGED << config, args, user_patterns, total_classifications,
                  ml_result, api_result, api_locals >>

\* _learn_from_classification: append, keep the last HistoryCap entries
_learn_from_classification(patterns, desc, category, user) ==
  LET appended == Append(patterns[user],
                         [description |-> desc, category |-> category])
      n == Len(appended)
  IN  [ patterns EXCEPT ![user] =
          IF n > HistoryCap THEN SubSeq(appended, n - HistoryCap + 1, n)
          ELSE appended ]

\* learning, only for an identified user and above 0.5
LearnStage ==
  /\ pc = "learn"
  /\ user_patterns' =
       IF LearnGate(result, user_id)
       THEN _learn_from_classification(user_patterns, clean_description,
                                       result.category, user_id[1])
       ELSE user_patterns
  /\ pc' = "finish"
  /\ UNCHANGED << config, args, total_classifications, result, ml_result,
                  api_result, api_locals, consulted, producer >>

\* the except branch of categorize_expense: the result is the rule result
ErrorFallback ==
  /\ pc = "error"
  /\ result' = Update(result,
                      _classify_with_enhanced_rules(clean_description, amount),
                      "error_fallback")
  /\ consulted' = Append(consulted, Consult("rules", "result"))
  /\ producer' = "rules"
  /\ pc' = "finish"
  /\ UNCHANGED << config, args, user_patterns, total_classifications,
                  ml_result, api_result, api_locals >>

\* statistics are updated and the result is returned
Return ==
  /\ pc = "finish"
  /\ total_classifications' = total_classifications + 1
  /\ pc' = "done"
  /\ UNCHANGED << config, args, user_patterns, result, ml_result,
                  api_result, api_locals, consulted, producer >>

Step ==
  \/ \E o \in LocalOutcomes : LocalStage(o)
  \/ ApiStage
  \/ \E r \in HttpResponses, b \in BOOLEAN : HttpAttempt(r, b)
  \/ ApiMerge
  \/ PatternStage
  \/ \E o \in SimilarityOutcomes : SemanticStage(o)
  \/ RulesStage
  \/ LearnStage
  \/ ErrorFallback
  \/ Return

\* ============================================================================
\* The categorizer the application runs (backend/services/ml_categorizer.py)
\* behind the result cache of backend/app/main.py.  Scores of its rule scorer
\* are integers in tenths, amounts in hundredths where ranges are compared.

MaxOps == 3            \* cached_categorize calls per behaviour
MaxTime == 2           \* seconds the clock advances per behaviour
WrapperConfidence == 850   \* "confidence": 0.85
MinMerchantLen == 3    \* len(potential_merchant) > 3
MinPatternLen == 5     \* len(description) > 5
Preloaded == 100       \* merchants learned before the behaviour starts

\* the first word of the i-th description learned before the behaviour
\* starts: equally long, so none is a substring of another
MerchantName(i) == "qqqqq" \o ToString(100 + i)

\* len(word)
WordLen(word) ==
  CASE word \in { "Ride", "ride", "uber" } -> 4
    [] word = "gym" -> 3
    [] word = "xyzzy" -> 5
    [] OTHER -> 8

\* len(description): the words and the single spaces between them
RECURSIVE DescLen(_)
DescLen(desc) ==
  IF desc = <<>> THEN 0
  ELSE WordLen(Head(desc)) + (IF Len(desc) > 1 THEN 1 ELSE 0) + DescLen(Tail(desc))

\* str.lower() of one word
SvcLower(word) == IF word = "Ride" THEN "ride" ELSE word

\* description.lower().strip() and _norm_desc
_norm_desc(desc) == [ i \in 1..Len(desc) |-> SvcLower(desc[i]) ]

\* "s in description" for a string s without spaces: no modelled word is a
\* proper substring of another, so s is one of the words
Contains(desc, s) == \E i \in 1..Len(desc) : desc[i] = s

\* re.search(re.escape(prefix), description): the words of prefix occur as a
\* contiguous run of the description (every modelled description has at most
\* ten characters, so description[:10] is the description)
ContainsRun(desc, prefix) ==
  /\ prefix # <<>>
  /\ \E k \in 0..(Len(desc) - Len(prefix)) :
       \A j \in 1..Len(prefix) : desc[k + j] = prefix[j]

\* self.categories, in declaration order: of each keyword, pattern and
\* merchant list the entries that can occur in a modelled description and
\* two that cannot; amount ranges in hundredths
svc_categories ==
  << [category |-> "Food & Dining",
      keywords |-> << [word |-> "restaurant", len |-> 10],
                      [word |-> "coffee", len |-> 6] >>,
      patterns |-> << "restaurant", "food" >>,
      amount_ranges |-> << <<0, 50000>> >>,
      merchants |-> << "starbucks", "mcdonalds" >>],
     [category |-> "Transportation",
      keywords |-> << [word |-> "uber", len |-> 4],
                      [word |-> "lyft", len |-> 4] >>,
      patterns |-> << "uber", "lyft" >>,
      amount_ranges |-> << <<500, 20000>>, <<20000, 200000>> >>,
      merchants |-> << "uber", "lyft" >>],
     [category |-> "Entertainment",
      keywords |-> << [word |-> "netflix", len |-> 7],
                      [word |-> "theater", len |-> 7] >>,
      patterns |-> << "netflix", "movie" >>,
      amount_ranges |-> << <<99, 10000>> >>,
      merchants |-> << "netflix", "spotify" >>],
     [category |-> "Utilities & Bills",
      keywords |-> << [word |-> "electric", len |-> 8],
                      [word |-> "water", len |-> 5] >>,
      patterns |-> << "electric", "utility" >>,
      amount_ranges |-> << <<2000, 30000>> >>,
      merchants |-> << "verizon", "comcast" >>],
     [category |-> "Shopping",
      keywords |-> << [word |-> "amazon", len |-> 6],
                      [word |-> "store", len |-> 5] >>,
      patterns |-> << "amazon", "store" >>,
      amount_ranges |-> << <<500, 100000>> >>,
      merchants |-> << "amazon", "ebay" >>],
     [category |-> "Health & Fitness",
      keywords |-> << [word |-> "gym", len |-> 3],
                      [word |-> "fitness", len |-> 7] >>,
      patterns |-> << "gym", "fitness" >>,
      amount_ranges |-> << <<1000, 50000>> >>,
      merchants |-> << >>],
     [category |-> "Education",
      keywords |-> << [word |-> "school", len |-> 6],
                      [word |-> "tuition", len |-> 7] >>,
      patterns |-> << "school", "university" >>,
      amount_ranges |-> << <<2000, 500000>> >>,
      merchants |-> << >>],
     [category |-> "Travel",
      keywords |-> << [word |-> "hotel", len |-> 5],
                      [word |-> "airbnb", len |-> 6] >>,
      patterns |-> << "hotel", "travel" >>,
      amount_ranges |-> << <<5000, 300000>> >>,
      merchants |-> << >>],
     [category |-> "Miscellaneous",
      keywords |-> << [word |-> "misc", len |-> 4],
                      [word |-> "atm", len |-> 3] >>,
      patterns |-> << "misc", "atm" >>,
      amount_ranges |-> << <<0, 1000000>> >>,
      merchants |-> << >>] >>

SvcCategories == { svc_categories[i].category : i \in 1..Len(svc_categories) }

\* score of one category: len(keyword)/10 + 1 per keyword found, 3 per
\* pattern found, 1 per amount range holding the amount, 2 for a known
\* merchant
RECURSIVE KeywordWeights(_, _)
KeywordWeights(keywords, desc) ==
  IF keywords = <<>> THEN 0
  ELSE (IF Contains(desc, Head(keywords).word) THEN Head(keywords).len + 10 ELSE 0)
         + KeywordWeights(Tail(keywords), desc)

_get_merchant_score(desc, merchants) ==
  IF \E i \in 1..Len(merchants) : Contains(desc, merchants[i]) THEN 20 ELSE 0

SvcScore(entry, desc, amt) ==
  KeywordWeights(entry.keywords, desc)
    + 30 * Cardinality({ i \in 1..Len(entry.patterns) : Contains(desc, entry.patterns[i]) })
    + 10 * Cardinality({ i \in 1..Len(entry.amount_ranges) :
                           /\ entry.amount_ranges[i][1] <= amt * 100
                           /\ amt * 100 <= entry.amount_ranges[i][2] })
    + _get_merchant_score(desc, entry.merchants)

\* services _classify_with_enhanced_rules: the first category with the
\* largest score, Miscellaneous when no score is positive
SvcRules(desc, amt) ==
  LET n == Len(svc_categories)
      score == [ i \in 1..n |-> SvcScore(svc_categories[i], desc, amt) ]
      best == CHOOSE i \in 1..n :
                /\ \A j \in 1..n : score[j] <= score[i]
                /\ \A j \in 1..(i - 1) : score[j] < score[i]
  IN  IF score[best] > 0 THEN svc_categories[best].category ELSE "Miscellaneous"

\* ------------------------------------------------ inputs of cached_categorize
Descriptions == { <<"Ride">>, <<"uber", "ride">>, <<"xyzzy">>, << MerchantName(Preloaded) >> }
Requests ==
  { [description |-> <<"Ride">>, amount |-> Some(5), user_id |-> Some("user1")],
    [description |-> <<"uber", "ride">>, amount |-> Some(5), user_id |-> Some("user1")],
    [description |-> <<"uber", "ride">>, amount |-> Some(5), user_id |-> Some("user2")],
    [description |-> <<"uber", "ride">>, amount |-> Some(5), user_id |-> None],
    [description |-> <<"xyzzy">>, amount |-> None, user_id |-> None],
    [description |-> << MerchantName(Preloaded) >>, amount |-> Some(5),
     user_id |-> Some("user1")] }

\* what a loaded zero-shot model answers with a score above 0.7, and what
\* the fitted vectorizer answers with a similarity above 0.3: both are
\* deterministic functions of the description
LocalModels ==
  { None,
    Some([ d \in { _norm_desc(x) : x \in Descriptions } |->
             IF d = <<"xyzzy">> THEN Some("Travel") ELSE None ]) }
Vectorizers ==
  { None,
    Some([ d \in { _norm_desc(x) : x \in Descriptions } |->
             IF d = <<"uber", "ride">> THEN Some("Transportation") ELSE None ]) }

\* int(os.getenv("CACHE_TTL_SECONDS", "300")) and
\* int(os.getenv("CACHE_MAX_ITEMS", "500")), as configured for the model
CACHE_TTL_SECONDS == 1
CACHE_MAX_ITEMS == 2

VARIABLES
  local_model,          \* services self.local_model (None when not loaded)
  vectorizer,           \* services self.vectorizer (None when not fitted)
  category_cache,       \* services self.category_cache, in insertion order
  svc_user_patterns,    \* services self.user_patterns
  classification_stats, \* services self.classification_stats
  _ai_cache,            \* main._ai_cache: store, max_items, ttl, counters
  now,                  \* time.time(), in seconds
  mpc,                  \* position of the cached_categorize call in flight
  request,              \* its arguments
  detailed,             \* its local "result"
  response,             \* what the last finished call returned
  served,               \* ghost: where that answer came from
  ops,                  \* cached_categorize calls started
  uses,                 \* ghost: number of cache uses so far
  epoch                 \* ghost: number of changes of the pattern store

main_vars ==
  << local_model, vectorizer, category_cache, svc_user_patterns,
     classification_stats, _ai_cache, now, mpc, request, detailed, response,
     served, ops, uses, epoch >>

\* ------------------------------------------------------------ dict helpers
\* position of key in an insertion-ordered dict, 0 when absent
IndexOf(dict, key) ==
  IF \E i \in 1..Len(dict) : dict[i].key = key
  THEN CHOOSE i \in 1..Len(dict) : dict[i].key = key
  ELSE 0

\* dict without position i
RemoveAt(dict, i) == [ j \in 1..(Len(dict) - 1) |-> IF j < i THEN dict[j] ELSE dict[j + 1] ]

\* variant: an assignment adds an item and keeps the one already there
PutAppend(dict, entry) == Append(dict, entry)

\* dict[key] = entry: an existing key keeps its position
Put(dict, entry) ==
  IF IndexOf(dict, entry.key) = 0 THEN Append(dict, entry)
  ELSE [ dict EXCEPT ![IndexOf(dict, entry.key)] = entry ]

\* ------------------------------------------------------- services categorizer
\* _classify_with_local_model
SvcLocal(model, desc) == IF model = None THEN None ELSE model[1][desc]

\* services _classify_with_patterns over a pattern store: the first learned
\* merchant found in the description, then the first learned description
\* pattern found in it; the index of the entry that answered is kept for the
\* properties
SvcPatternHit(patterns, desc, uid) ==
  LET m == patterns.merchant_categories
      p == patterns.description_patterns
      mhits == { i \in 1..Len(m) : Contains(desc, m[i].key) }
      phits == { i \in 1..Len(p) : ContainsRun(desc, p[i].key) }
  IN  IF uid = None THEN None
      ELSE IF mhits # {}
        THEN Some(m[CHOOSE i \in mhits : \A j \in mhits : i <= j])
      ELSE IF phits # {}
        THEN Some(p[CHOOSE i \in phits : \A j \in phits : i <= j])
      ELSE None

\* variant: learned patterns are never consulted
SvcPatternsOff(patterns, desc, uid) == None

SvcPatterns(patterns, desc, uid) ==
  LET hit == SvcPatternHit(patterns, desc, uid)
  IN  IF hit = None THEN None ELSE Some(hit[1].category)

\* _classify_with_semantics
SvcSemantics(vec, desc) == IF vec = None THEN None ELSE vec[1][desc]

\* the strategies of categorize after a cache miss: the stage that answers
\* and its category
SvcPipeline(model, vec, patterns, desc, amt, uid) ==
  IF SvcLocal(model, desc) # None
    THEN [stage |-> "ml_model", category |-> SvcLocal(model, desc)[1]]
  ELSE IF SvcPatterns(patterns, desc, uid) # None
    THEN [stage |-> "pattern_based", category |-> SvcPatterns(patterns, desc, uid)[1]]
  ELSE IF SvcSemantics(vec, desc) # None
    THEN [stage |-> "semantic", category |-> SvcSemantics(vec, desc)[1]]
  ELSE [stage |-> "rule_based", category |-> SvcRules(desc, amt)]

\* whether the first word is learned as a merchant
LearnsMerchant(desc) == desc # <<>> /\ WordLen(desc[1]) > MinMerchantLen

\* whether description[:10] is learned as a description pattern
LearnsPattern(desc) == DescLen(desc) > MinPatternLen

\* services _learn_from_classification (by: ghost, the learning user)
SvcLearn(patterns, desc, category, uid) ==
  IF uid = None THEN patterns
  ELSE
    LET m1 == IF LearnsMerchant(desc)
              THEN Put(patterns.merchant_categories,
                       [key |-> desc[1], category |-> category, by |-> uid[1]])
              ELSE patterns.merchant_categories
        p1 == IF LearnsPattern(desc)
              THEN Put(patterns.description_patterns,
                       [key |-> desc, category |-> category, by |-> uid[1]])
              ELSE patterns.description_patterns
    IN  [merchant_categories |-> m1, description_patterns |-> p1]

\* ------------------------------------------------------------- main._TTLCache
\* an expiry test that never fires
ExpiredNever(cache, entry, t) == FALSE

\* now - ts > self.ttl
Expired(cache, entry, t) == t - entry.ts > cache.ttl

\* _purge_expired at time t
_purge_expired(cache, t) ==
  [ cache EXCEPT !.store = SelectSeq(cache.store, LAMBDA e : ~Expired(cache, e, t)) ]

\* move_to_end(key)
MoveToEnd(store, i) == Append(RemoveAt(store, i), store[i])

\* _TTLCache.get with the clock read t1 by the purge and t2 by the check:
\* the cache afterwards and the value returned (None on a miss); use: ghost
\* stamp of this use
CacheGet(cache, key, t1, t2, use) ==
  LET purged == _purge_expired(cache, t1)
      i == IndexOf(purged.store, key)
  IN  IF i # 0 /\ ~Expired(purged, purged.store[i], t2)
        THEN [cache |-> [ purged EXCEPT
                            !.store = MoveToEnd([ purged.store EXCEPT ![i].used = use ], i),
                            !.hits = @ + 1 ],
              value |-> Some(purged.store[i].value)]
      ELSE [cache |-> [ purged EXCEPT
                          !.store = IF i # 0 THEN RemoveAt(@, i) ELSE @,
                          !.misses = @ + 1 ],
            value |-> None]

\* an eviction that removes the newest entry
EvictNewest(cache) ==
  IF Len(cache.store) > cache.max_items
  THEN [ cache EXCEPT !.store = SubSeq(@, 1, Len(@) - 1), !.evictions = @ + 1 ]
  ELSE cache

\* a set that never evicts
EvictNothing(cache) == cache

\* popitem(last=False) when the store has outgrown max_items
Evict(cache) ==
  IF Len(cache.store) > cache.max_items
  THEN [ cache EXCEPT !.store = Tail(@), !.evictions = @ + 1 ]
  ELSE cache

\* variant: set stores the entry without looking for the key
CacheSetUnkeyed(cache, entry) == Evict([ cache EXCEPT !.store = Append(@, entry) ])

\* _TTLCache.set at time t
CacheSet(cache, entry) ==
  LET i == IndexOf(cache.store, entry.key)
      moved == IF i # 0 THEN MoveToEnd(cache.store, i) ELSE cache.store
  IN  Evict([ cache EXCEPT !.store = Put(moved, entry) ])

\* _cat_key
_cat_key(desc, amt, uid) ==
  << "cat", IF uid = None THEN "anon" ELSE uid[1], _norm_desc(desc), amt >>

\* ------------------------------------------------ categorize_expense_detailed
\* amount or 0
SvcAmount(amt) == IF amt = None THEN 0 ELSE amt[1]

\* the dict categorize_expense_detailed returns
Detailed(category) ==
  [category |-> category, confidence |-> WrapperConfidence, method |-> "enhanced_ml"]

\* f"{description}_{amount}"
cache_key(desc, amt) == << desc, amt >>

\* ------------------------------------------------------------ initial states
\* after construction
FreshStore == [merchant_categories |-> <<>>, description_patterns |-> <<>>]

\* after user1 has had Preloaded descriptions categorized, each a single
\* unknown word with amount 5, each call long after the one before
LearnedCategory == SvcRules(<< MerchantName(1) >>, 5)

PreloadedStore ==
  [merchant_categories |->
     [ i \in 1..Preloaded |->
         [key |-> MerchantName(i), category |-> LearnedCategory, by |-> "user1"] ],
   description_patterns |->
     [ i \in 1..Preloaded |->
         [key |-> << MerchantName(i) >>, category |-> LearnedCategory, by |-> "user1"] ]]

PreloadedCache ==
  [ i \in 1..Preloaded |->
      [key |-> cache_key(<< MerchantName(i) >>, 5), category |-> LearnedCategory,
       by |-> Some("user1"), epoch |-> i] ]

PreloadedEntry ==
  [key |-> _cat_key(<< MerchantName(Preloaded) >>, Some(5), Some("user1")),
   value |-> Detailed(LearnedCategory), ts |-> 0, used |-> 0,
   by |-> Some("user1"), epoch |-> Preloaded]

MainInit ==
  /\ local_model \in LocalModels
  /\ vectorizer \in Vectorizers
  /\ LET max_items == CACHE_MAX_ITEMS
         ttl == CACHE_TTL_SECONDS
     IN
       \/ /\ svc_user_patterns = FreshStore
          /\ category_cache = <<>>
          /\ classification_stats =
               [total_classifications |-> 0, ml_model_used |-> 0,
                rule_based_used |-> 0, pattern_based_used |-> 0, cache_hits |-> 0]
          /\ _ai_cache = [store |-> <<>>, max_items |-> max_items, ttl |-> ttl,
                          hits |-> 0, misses |-> 0, evictions |-> 0]
          /\ epoch = 0
       \/ /\ local_model = None /\ vectorizer = None
          /\ svc_user_patterns = PreloadedStore
          /\ category_cache = PreloadedCache
          /\ classification_stats =
               [total_classifications |-> Preloaded, ml_model_used |-> 0,
                rule_based_used |-> Preloaded, pattern_based_used |-> 0,
                cache_hits |-> 0]
          /\ _ai_cache = [store |-> << PreloadedEntry >>, max_items |-> max_items,
                          ttl |-> ttl, hits |-> 0, misses |-> Preloaded,
                          evictions |-> 0]
          /\ epoch = Preloaded
  /\ now = 0
  /\ mpc = "idle"
  /\ request = None
  /\ detailed = None
  /\ response = None
  /\ served = None
  /\ ops = 0
  /\ uses = 0

\* ------------------------------------------------------------------- actions
\* cached_categorize up to the cache lookup: a hit returns the cached dict
CachedCategorizeGet(req, t2) ==
  /\ mpc = "idle"
  /\ ops < MaxOps
  /\ t2 <= MaxTime
  /\ LET key == _cat_key(req.description, req.amount, req.user_id)
         got == CacheGet(_ai_cache, key, now, t2, uses + 1)
         i == IndexOf(_ai_cache.store, key)
     IN  /\ _ai_cache' = got.cache
         /\ IF got.value # None
              THEN /\ response' = got.value
                   /\ served' = Some([by |-> "result_cache",
                                      origin |-> _ai_cache.store[i].by,
                                      epoch |-> _ai_cache.store[i].epoch])
                   /\ uses' = uses + 1
                   /\ mpc' = "idle"
              ELSE /\ mpc' = "miss"
                   /\ UNCHANGED << response, served, uses >>
  /\ now' = t2
  /\ request' = Some(req)
  /\ detailed' = None
  /\ ops' = ops + 1
  /\ UNCHANGED << local_model, vectorizer, category_cache, svc_user_patterns,
                  classification_stats, epoch >>

\* categorize_expense_detailed: services categorize, then the wrapper dict
CategorizeDetailed ==
  /\ mpc = "miss"
  /\ LET desc == _norm_desc(request[1].description)
         amt == SvcAmount(request[1].amount)
         uid == request[1].user_id
         i == IndexOf(category_cache, cache_key(desc, amt))
         run == SvcPipeline(local_model, vectorizer, svc_user_patterns, desc, amt, uid)
         learned == SvcLearn(svc_user_patterns, desc, run.category, uid)
         epoch1 == IF learned # svc_user_patterns THEN epoch + 1 ELSE epoch
     IN  IF i # 0
           THEN /\ classification_stats' =
                     [ classification_stats EXCEPT !.total_classifications = @ + 1,
                                                   !.cache_hits = @ + 1 ]
                /\ detailed' = Some(Detailed(category_cache[i].category))
                /\ served' = Some([by |-> "category_cache",
                                   origin |-> category_cache[i].by,
                                   epoch |-> category_cache[i].epoch])
                /\ UNCHANGED << category_cache, svc_user_patterns, epoch >>
           ELSE /\ classification_stats' =
                     [ classification_stats EXCEPT
                         !.total_classifications = @ + 1,
                         !.ml_model_used = IF run.stage = "ml_model" THEN @ + 1 ELSE @,
                         !.pattern_based_used =
                             IF run.stage = "pattern_based" THEN @ + 1 ELSE @,
                         !.rule_based_used =
                             IF run.stage = "rule_based" THEN @ + 1 ELSE @ ]
                /\ category_cache' =
                     Put(category_cache,
                         [key |-> cache_key(desc, amt), category |-> run.category,
                          by |-> uid, epoch |-> epoch1])
                /\ svc_user_patterns' = learned
                /\ epoch' = epoch1
                /\ detailed' = Some(Detailed(run.category))
                /\ served' = Some([by |-> run.stage, origin |-> uid, epoch |-> epoch1])
  /\ mpc' = "computed"
  /\ UNCHANGED << local_model, vectorizer, _ai_cache, now, request, response,
                  ops, uses >>

\* cached_categorize after the miss: store the result and return it
CachedCategorizeSet ==
  /\ mpc = "computed"
  /\ _ai_cache' =
       CacheSet(_ai_cache,
                [key |-> _cat_key(request[1].description, request[1].amount,
                                  request[1].user_id),
                 value |-> detailed[1], ts |-> now, used |-> uses + 1,
                 by |-> served[1].origin, epoch |-> served[1].epoch])
  /\ uses' = uses + 1
  /\ response' = detailed
  /\ mpc' = "idle"
  /\ UNCHANGED << local_model, vectorizer, category_cache, svc_user_patterns,
                  classification_stats, now, request, detailed, served, ops,
                  epoch >>

\* a second passes
Tick ==
  /\ now < MaxTime
  /\ now' = now + 1
  /\ UNCHANGED << local_model, vectorizer, category_cache, svc_user_patterns,
                  classification_stats, _ai_cache, mpc, request, detailed,
                  response, served, ops, uses, epoch >>

\* ------------------------------------------- the same anonymous call, twice
\* The orchestrator is called twice with one input while every strategy
\* answers the same way both times.
VARIABLES
  responses,   \* what the local model, the HTTP service and the vectorizer
               \* answer throughout the behaviour
  first        \* ghost: the input and the result of the first call

twice_vars == << responses, first >>

TwiceParked == responses = None /\ first = None

\* callers without user_id
AnonymousInputs == { in \in Inputs : in.user_id = None }

\* one answer per strategy, the same in both calls
Responses ==
  [ local : LocalOutcomes, http : HttpResponses, json : BOOLEAN,
    similarity : SimilarityOutcomes ]

TwiceInit ==
  /\ Init
  /\ responses \in Responses
  /\ first = None

\* the call returns; the first call's input and result are kept for comparison
TwiceReturn ==
  /\ Return
  /\ first' = IF first = None
              THEN Some([ description |-> description, amount |-> amount,
                          user_id |-> user_id, result |-> result,
                          consulted |-> consulted ])
              ELSE first
  /\ UNCHANGED responses

\* the second call repeats the first call's arguments
TwiceCall(in) ==
  /\ first # None =>
       /\ in.description = first[1].description
       /\ in.amount = first[1].amount
       /\ in.user_id = first[1].user_id
  /\ Call(in)
  /\ UNCHANGED twice_vars

\* ------------------------------------------------- the three rule scorers
\* The rule scorers called by themselves: _classify_with_enhanced_rules of
\* app/ml_categorizer.py ("app") and of services/ml_categorizer.py
\* ("services"), and _categorize_with_rules of app/ai_categorizer.py ("ai").

\* ai_categorizer: self.categories, in declaration order
ai_categories ==
  << "Food & Dining", "Transportation", "Entertainment", "Shopping",
     "Utilities", "Healthcare", "Housing", "Education", "Travel",
     "Business", "Other" >>

\* ai_categorizer: self.category_patterns, in declaration order
ai_category_patterns ==
  << [category |-> "Food & Dining",
      patterns |-> << "coffee", "restaurant", "food", "lunch", "dinner",
                      "breakfast", "eat", "starbucks", "mcdonalds", "pizza",
                      "burger", "cafe", "dining", "meal", "snack", "grocery",
                      "supermarket" >>],
     [category |-> "Transportation",
      patterns |-> << "uber", "lyft", "taxi", "gas", "fuel", "transport",
                      "bus", "train", "subway", "metro", "parking", "toll",
                      "car", "vehicle" >>],
     [category |-> "Entertainment",
      patterns |-> << "netflix", "spotify", "movie", "game", "entertainment",
                      "cinema", "theater", "music", "streaming",
                      "subscription", "youtube", "amazon prime" >>],
     [category |-> "Utilities",
      patterns |-> << "electric", "electricity", "water", "internet", "phone",
                      "utility", "cable", "wifi", "cellular", "mobile",
                      "landline" >>],
     [category |-> "Housing",
      patterns |-> << "rent", "mortgage", "insurance", "home", "house",
                      "apartment", "property", "maintenance", "repair",
                      "furnishing" >>],
     [category |-> "Healthcare",
      patterns |-> << "doctor", "pharmacy", "medical", "health", "hospital",
                      "clinic", "prescription", "medicine", "dental", "vision",
                      "therapy" >>],
     [category |-> "Shopping",
      patterns |-> << "clothes", "shopping", "amazon", "store", "buy",
                      "purchase", "retail", "mall", "online", "clothing",
                      "shoes", "accessories" >>],
     [category |-> "Education",
      patterns |-> << "school", "university", "course", "book", "education",
                      "tuition", "learning", "training", "certification",
                      "seminar" >>],
     [category |-> "Travel",
      patterns |-> << "hotel", "flight", "travel", "vacation", "trip",
                      "airline", "booking", "airbnb", "resort", "cruise",
                      "tour" >>],
     [category |-> "Business",
      patterns |-> << "office", "business", "meeting", "conference", "work",
                      "professional", "equipment", "software", "tools",
                      "supplies" >>] >>

\* the patterns of category_patterns that occur as substrings of a word
AiSubstrings(word) ==
  CASE word = "online"  -> { "online" }
    [] word = "phone"   -> { "phone" }
    [] word = "carpet"  -> { "car" }
    [] word = "car"     -> { "car" }
    [] word = "rent"    -> { "rent" }
    [] word = "clothes" -> { "clothes" }
    [] OTHER            -> { }

\* desc_clean: lowercased, every character outside \w and \s made a space
AiClean(desc) == SelectSeq([ i \in 1..Len(desc) |-> Lower(desc[i]) ],
                           LAMBDA tok : tok # "!")

\* 2 for a pattern that is a whole word of desc_clean, 1 for a pattern that
\* occurs only inside a word
AiPatternScore(pattern, clean) ==
  IF \E i \in 1..Len(clean) : pattern \in AiSubstrings(clean[i])
  THEN IF \E i \in 1..Len(clean) : clean[i] = pattern THEN 2 ELSE 1
  ELSE 0

RECURSIVE AiSum(_, _)
AiSum(patterns, clean) ==
  IF patterns = <<>> THEN 0
  ELSE AiPatternScore(Head(patterns), clean) + AiSum(Tail(patterns), clean)

\* category_scores of _categorize_with_rules: one item per category of
\* category_patterns, in its order
AiCategoryScores(desc) ==
  [ i \in 1..Len(ai_category_patterns) |->
      [category |-> ai_category_patterns[i].category,
       score |-> AiSum(ai_category_patterns[i].patterns, AiClean(desc))] ]

\* category_scores of the services scorer: one item per category
SvcCategoryScores(desc, amt) ==
  [ i \in 1..Len(svc_categories) |->
      [category |-> svc_categories[i].category,
       score |-> SvcScore(svc_categories[i], desc, amt)] ]

\* max(category_scores.items(), key=lambda x: x[1]) and the test
\* "best_category[1] > 0" of the services and ai scorers
BestOrDefault(scores, default) ==
  LET best == scores[MaxIndex(scores)]
  IN  IF best.score > 0 THEN best.category ELSE default

\* _categorize_with_rules
_categorize_with_rules(desc) == BestOrDefault(AiCategoryScores(desc), "Other")

\* the calls made on the scorers
AppRuleDescriptions ==
  { <<>>, <<"xyzzy">>, <<"Uber", "ride">>, <<"uber", "food">>,
    <<"coffee", "theater">>, <<"uber", "lyft", "food", "restaurant">>,
    <<"theater">>, <<"food", "restaurant", "coffee", "uber", "lyft", "theater">> }

AiDescriptions ==
  { <<"online", "phone">>, <<"Phone", "!", "online">>, <<"carpet">>,
    <<"rent", "car">>, <<"rent", "clothes">>, <<"xyzzy">> }

RuleCalls ==
  [ scorer : { "app" }, description : AppRuleDescriptions,
    amount : { None, Some(0), Some(5), Some(50), Some(600) } ]
    \cup [ scorer : { "services" }, description : Descriptions,
           amount : { Some(0), Some(5), Some(50), Some(600) } ]
    \cup [ scorer : { "ai" }, description : AiDescriptions, amount : { None } ]

NoRuleResult == [ category |-> "", confidence |-> 0, alternatives |-> <<>> ]

VARIABLES
  rule_call,     \* the scorer called and its arguments
  rule_scores,   \* category_scores, in the order of the dict's items
  rule_answer,   \* what the scorer returns
  rule_pc        \* "parked", "called", "scored", "returned"

rule_vars == << rule_call, rule_scores, rule_answer, rule_pc >>

RulesParked ==
  /\ rule_call = None
  /\ rule_scores = <<>>
  /\ rule_answer = NoRuleResult
  /\ rule_pc = "parked"

RulesInit ==
  /\ rule_call \in { Some(c) : c \in RuleCalls }
  /\ rule_scores = <<>>
  /\ rule_answer = NoRuleResult
  /\ rule_pc = "called"

\* the scoring loops, with the amount adjustment
ScoreCategories ==
  /\ rule_pc = "called"
  /\ LET c == rule_call[1]
     IN  rule_scores' =
           CASE c.scorer = "app" -> category_scores(c.description, c.amount)
             [] c.scorer = "services" ->
                  SvcCategoryScores(c.description, c.amount[1])
             [] c.scorer = "ai" -> AiCategoryScores(c.description)
  /\ rule_pc' = "scored"
  /\ UNCHANGED << rule_call, rule_answer >>

\* the best category is picked and the result returned
PickBest ==
  /\ rule_pc = "scored"
  /\ LET c == rule_call[1]
     IN  rule_answer' =
           CASE c.scorer = "app" -> RuleResult(rule_scores)
             [] c.scorer = "services" ->
                  [ NoRuleResult EXCEPT
                      !.category = BestOrDefault(rule_scores, "Miscellaneous") ]
             [] c.scorer = "ai" ->
                  [ NoRuleResult EXCEPT
                      !.category = BestOrDefault(rule_scores, "Other") ]
  /\ rule_pc' = "returned"
  /\ UNCHANGED << rule_call, rule_scores >>

\* ------------------------------------- the services categorizer called directly
\* categorize and update_user_patterns called on one categorizer object, with
\* no result cache of main.py in front of it.
CorrectionDescriptions == { <<"uber", "ride">>, <<"gym", "xyzzy">>, <<"Ride">> }

\* the categorize calls made
CorrectionCalls ==
  [ description : CorrectionDescriptions, amount : { Some(5), Some(600) },
    user_id : { Some("user1") } ]

\* the corrections made, one description per call
Corrections ==
  [ description : { <<"uber", "ride">>, <<"gym", "xyzzy">> },
    category : { "Shopping", "Travel" }, user_id : { "user1" } ]

\* the local model, when loaded, answers for the gym description
CorrectionModels ==
  { None,
    Some([ d \in { _norm_desc(x) : x \in CorrectionDescriptions } |->
             IF d = <<"gym", "xyzzy">> THEN Some("Health & Fitness") ELSE None ]) }

VARIABLES
  svc_log      \* ghost: the calls made on the categorizer, with what each
               \* returned and which merchant token it wrote

LogParked == svc_log = <<>>

\* services categorize(description, amount, user_id) on a categorizer in the
\* given state: what it returns, the stage that answered and the state it
\* leaves (ep: ghost version of the pattern store)
SvcCategorize(cat_cache, patterns, stats, model, vec, desc, amt, uid, ep) ==
  LET i == IndexOf(cat_cache, cache_key(desc, amt))
      run == SvcPipeline(model, vec, patterns, desc, amt, uid)
      learned == SvcLearn(patterns, desc, run.category, uid)
      ep1 == IF learned # patterns THEN ep + 1 ELSE ep
  IN  IF i # 0
        THEN [ category |-> cat_cache[i].category, stage |-> "cache",
               category_cache |-> cat_cache, user_patterns |-> patterns,
               epoch |-> ep,
               stats |-> [ stats EXCEPT !.total_classifications = @ + 1,
                                        !.cache_hits = @ + 1 ] ]
        ELSE [ category |-> run.category, stage |-> run.stage,
               category_cache |->
                 Put(cat_cache,
                     [key |-> cache_key(desc, amt), category |-> run.category,
                      by |-> uid, epoch |-> ep1]),
               user_patterns |-> learned,
               epoch |-> ep1,
               stats |-> [ stats EXCEPT
                   !.total_classifications = @ + 1,
                   !.ml_model_used = IF run.stage = "ml_model" THEN @ + 1 ELSE @,
                   !.pattern_based_used =
                       IF run.stage = "pattern_based" THEN @ + 1 ELSE @,
                   !.rule_based_used =
                       IF run.stage = "rule_based" THEN @ + 1 ELSE @ ] ]

\* a categorizer just constructed, its local model loaded or not
CorrectionInit ==
  /\ local_model \in CorrectionModels
  /\ vectorizer = None
  /\ svc_user_patterns = FreshStore
  /\ category_cache = <<>>
  /\ classification_stats =
       [total_classifications |-> 0, ml_model_used |-> 0,
        rule_based_used |-> 0, pattern_based_used |-> 0, cache_hits |-> 0]
  /\ _ai_cache = [store |-> <<>>, max_items |-> CACHE_MAX_ITEMS,
                  ttl |-> CACHE_TTL_SECONDS, hits |-> 0, misses |-> 0,
                  evictions |-> 0]
  /\ epoch = 0
  /\ now = 0
  /\ mpc = "idle"
  /\ request = None
  /\ detailed = None
  /\ response = None
  /\ served = None
  /\ ops = 0
  /\ uses = 0
  /\ svc_log = <<>>

\* services categorize(description, amount, user_id), called directly
Categorize(call) ==
  /\ Len(svc_log) < MaxOps
  /\ LET desc == _norm_desc(call.description)
         amt == call.amount[1]
         uid == call.user_id
         ret == SvcCategorize(category_cache, svc_user_patterns,
                              classification_stats, local_model, vectorizer,
                              desc, amt, uid, epoch)
     IN  /\ category_cache' = ret.category_cache
         /\ svc_user_patterns' = ret.user_patterns
         /\ classification_stats' = ret.stats
         /\ epoch' = ret.epoch
         /\ svc_log' = Append(svc_log,
              [op |-> "categorize", description |-> desc, amount |-> amt,
               user_id |-> uid, category |-> ret.category, stage |-> ret.stage,
               merchant |-> IF ret.stage # "cache" /\ uid # None
                               /\ LearnsMerchant(desc)
                            THEN Some(desc[1]) ELSE None])
  /\ UNCHANGED << local_model, vectorizer, _ai_cache, now, mpc, request,
                  detailed, response, served, ops, uses >>

\* update_user_patterns({description: correct_category}, user_id): the first
\* word of the lowercased description becomes a merchant key
UpdateUserPatterns(c) ==
  /\ Len(svc_log) < MaxOps
  /\ LET words == _norm_desc(c.description)
     IN  /\ svc_user_patterns' =
              [ svc_user_patterns EXCEPT
                  !.merchant_categories =
                     IF words = <<>> THEN @
                     ELSE Put(@, [key |-> words[1], category |-> c.category,
                                  by |-> c.user_id]) ]
         /\ svc_log' = Append(svc_log,
              [op |-> "update", description |-> words, amount |-> 0,
               user_id |-> Some(c.user_id), category |-> c.category,
               stage |-> "correction",
               merchant |-> IF words = <<>> THEN None ELSE Some(words[1])])
  /\ epoch' = epoch + 1
  /\ UNCHANGED << local_model, vectorizer, category_cache, classification_stats,
                  _ai_cache, now, mpc, request, detailed, response, served,
                  ops, uses >>

\* ------------------------------------------ two cached_categorize calls at once
\* Two callers run cached_categorize with the same arguments on the shared
\* cache and categorizer; each _TTLCache method runs under the cache's lock
\* and categorize runs without suspension, so a call is three atomic steps:
\* get, categorize_expense_detailed, set.
Callers == { "a", "b" }

VARIABLES
  shared,      \* the arguments both callers pass
  calls,       \* caller -> position in cached_categorize, result computed,
               \* value returned
  set_order    \* ghost: the callers in the order their cache set ran

conc_vars == << shared, calls, set_order >>

NotCalled == [pc |-> "start", detailed |-> None, response |-> None]

ConcParked ==
  /\ shared = None
  /\ calls = [ c \in Callers |-> NotCalled ]
  /\ set_order = <<>>

\* a cache and a categorizer that have seen no call
ConcurrentInit ==
  /\ MainInit
  /\ svc_user_patterns = FreshStore
  /\ shared \in { Some(r) : r \in Requests }
  /\ calls = [ c \in Callers |-> NotCalled ]
  /\ set_order = <<>>

\* cached_categorize up to the cache lookup
ConcGet(c, t2) ==
  /\ calls[c].pc = "start"
  /\ t2 <= MaxTime
  /\ LET req == shared[1]
         key == _cat_key(req.description, req.amount, req.user_id)
         got == CacheGet(_ai_cache, key, now, t2, uses + 1)
     IN  /\ _ai_cache' = got.cache
         /\ IF got.value # None
              THEN /\ calls' = [ calls EXCEPT ![c].pc = "returned",
                                              ![c].response = got.value ]
                   /\ uses' = uses + 1
              ELSE /\ calls' = [ calls EXCEPT ![c].pc = "miss" ]
                   /\ UNCHANGED uses
  /\ now' = t2
  /\ UNCHANGED << local_model, vectorizer, category_cache, svc_user_patterns,
                  classification_stats, mpc, request, detailed, response,
                  served, ops, epoch, shared, set_order >>

\* await categorize_expense_detailed(...)
ConcRun(c) ==
  /\ calls[c].pc = "miss"
  /\ LET req == shared[1]
         ret == SvcCategorize(category_cache, svc_user_patterns,
                              classification_stats, local_model, vectorizer,
                              _norm_desc(req.description), SvcAmount(req.amount),
                              req.user_id, epoch)
     IN  /\ category_cache' = ret.category_cache
         /\ svc_user_patterns' = ret.user_patterns
         /\ classification_stats' = ret.stats
         /\ epoch' = ret.epoch
         /\ calls' = [ calls EXCEPT ![c].pc = "computed",
                                    ![c].detailed = Some(Detailed(ret.category)) ]
  /\ UNCHANGED << local_model, vectorizer, _ai_cache, now, mpc, request,
                  detailed, response, served, ops, uses, shared, set_order >>

\* _ai_cache.set(key, result); return result
ConcSet(c) ==
  /\ calls[c].pc = "computed"
  /\ LET req == shared[1]
     IN  _ai_cache' =
           CacheSet(_ai_cache,
                    [key |-> _cat_key(req.description, req.amount, req.user_id),
                     value |-> calls[c].detailed[1], ts |-> now,
                     used |-> uses + 1, by |-> req.user_id, epoch |-> epoch])
  /\ uses' = uses + 1
  /\ calls' = [ calls EXCEPT ![c].pc = "returned",
                             ![c].response = calls[c].detailed ]
  /\ set_order' = Append(set_order, c)
  /\ UNCHANGED << local_model, vectorizer, category_cache, svc_user_patterns,
                  classification_stats, now, mpc, request, detailed, response,
                  served, ops, epoch, shared >>

\* ------------------------------------------------- refresh tokens and sessions
\* /auth/refresh and /auth/logout of app/auth/routes.py over the table
\* user_sessions.  A refresh token is the JWT of the claims sub, exp, iat and
\* type with exp = iat + 7 days and the times in whole seconds, so it is
\* determined by the user and the second it was issued in.
MaxRequests == 3       \* requests to /auth/refresh and /auth/logout per behaviour

Clients == { "c1", "c2" }

\* generate_refresh_token for the user at the given second
generate_refresh_token(user, second) == [sub |-> user, iat |-> second]

VARIABLES
  user_sessions,   \* the refresh tokens that have a row in user_sessions
  auth_now,        \* the clock, in seconds
  issued,          \* ghost: the refresh tokens handed out so far
  spent,           \* ghost: the tokens a completed refresh or logout was made with
  refreshing,      \* client -> the /auth/refresh request it has in flight
  auth_log         \* ghost: the requests completed, in order

auth_vars == << user_sessions, auth_now, issued, spent, refreshing, auth_log >>

NoRequest == [pc |-> "idle", token |-> None, new |-> None, late |-> FALSE]

AuthParked ==
  /\ user_sessions = {}
  /\ auth_now = 0
  /\ issued = {}
  /\ spent = {}
  /\ refreshing = [ c \in Clients |-> NoRequest ]
  /\ auth_log = <<>>

\* user1 has logged in at second 0
AuthInit ==
  /\ user_sessions = { generate_refresh_token("user1", 0) }
  /\ auth_now = 0
  /\ issued = { generate_refresh_token("user1", 0) }
  /\ spent = {}
  /\ refreshing = [ c \in Clients |-> NoRequest ]
  /\ auth_log = <<>>

\* requests made so far, completed or in flight
Requested ==
  Len(auth_log) + Cardinality({ c \in Clients : refreshing[c].pc # "idle" })

Completed(op, token, code, late) ==
  [op |-> op, token |-> token, status |-> code, late |-> late]

\* refresh_token up to the session lookup: verify_token, then
\* get_session_by_token; 401 when no row holds the token
RefreshLookup(c, token) ==
  /\ refreshing[c].pc = "idle"
  /\ Requested < MaxRequests
  /\ IF token \in user_sessions
     THEN /\ refreshing' = [ refreshing EXCEPT ![c] =
                               [pc |-> "found", token |-> Some(token),
                                new |-> None, late |-> token \in spent] ]
          /\ UNCHANGED auth_log
     ELSE /\ auth_log' = Append(auth_log,
                                Completed("refresh", token, 401, token \in spent))
          /\ UNCHANGED refreshing
  /\ UNCHANGED << user_sessions, auth_now, issued, spent >>

\* get_user_by_id has answered: create_token_pair, then delete_session of
\* the token presented
RefreshDelete(c) ==
  /\ refreshing[c].pc = "found"
  /\ refreshing' = [ refreshing EXCEPT
                       ![c].pc = "deleted",
                       ![c].new = Some(generate_refresh_token(
                                         refreshing[c].token[1].sub, auth_now)) ]
  /\ user_sessions' = user_sessions \ { refreshing[c].token[1] }
  /\ UNCHANGED << auth_now, issued, spent, auth_log >>

\* create_session of the new token (a row with that token may exist already:
\* the INSERT then fails and None is returned, which the route ignores), then
\* the 200 response
RefreshCreate(c) ==
  /\ refreshing[c].pc = "deleted"
  /\ user_sessions' = user_sessions \cup { refreshing[c].new[1] }
  /\ issued' = issued \cup { refreshing[c].new[1] }
  /\ spent' = spent \cup { refreshing[c].token[1] }
  /\ auth_log' = Append(auth_log,
                        Completed("refresh", refreshing[c].token[1], 200,
                                  refreshing[c].late))
  /\ refreshing' = [ refreshing EXCEPT ![c] = NoRequest ]
  /\ UNCHANGED auth_now

\* logout with a refresh token: delete_session
Logout(token) ==
  /\ Requested < MaxRequests
  /\ user_sessions' = user_sessions \ { token }
  /\ spent' = spent \cup { token }
  /\ auth_log' = Append(auth_log, Completed("logout", token, 200, token \in spent))
  /\ UNCHANGED << auth_now, issued, refreshing >>

AuthTick ==
  /\ auth_now < MaxTime
  /\ auth_now' = auth_now + 1
  /\ UNCHANGED << user_sessions, issued, spent, refreshing, auth_log >>

\* -------------------------------------------------------- expenses and budgets
\* The expense and budget requests of app/expenses/routes.py and
\* app/budgets/routes.py over the tables expenses and budgets, one request
\* after the other.  A row of budgets is kept with the columns the requests
\* read or write for spent_amount (total_limit and notes are left out, and
\* with them PUT /api/budgets/{id}, which writes nothing else).  Amounts are
\* whole numbers.  A text is the sequence of its parts, a date's text being
\* year, "-", month, "-", day.
MaxBudgetRequests == 4   \* requests per behaviour

UserIds == { 1, 2 }

ExpenseAmounts == { 5, 7 }

ExpenseDates ==
  { [year |-> "2025", month |-> "07", day |-> "15"],
    [year |-> "2025", month |-> "08", day |-> "10"] }

\* BudgetCreate.period is any str: two months and a text that is no month
BudgetPeriods ==
  { << "2025", "-", "07" >>, << "2025", "-", "08" >>, << "2025" >> }

\* the text a DATE column is compared as
DateText(d) == << d.year, "-", d.month, "-", d.day >>

\* expense_date.strftime('%Y-%m')
strftime_Ym(d) == << d.year, "-", d.month >>

\* text LIKE prefix || '%'
LikePrefix(text, prefix) ==
  /\ Len(text) >= Len(prefix)
  /\ SubSeq(text, 1, Len(prefix)) = prefix

\* Expense.expense_date.like(f"{period}-%")
InPeriod(d, period) == LikePrefix(DateText(d), period \o << "-" >>)

RECURSIVE SumAmount(_)
\* func.coalesce(func.sum(Expense.amount), 0) over the rows
SumAmount(rows) ==
  IF rows = {} THEN 0
  ELSE LET r == CHOOSE x \in rows : TRUE
       IN  r.amount + SumAmount(rows \ { r })

\* the sum of the user's expense amounts whose date is LIKE the period
PeriodTotal(expense_rows, uid, period) ==
  SumAmount({ e \in expense_rows :
                e.user_id = uid /\ InPeriod(e.expense_date, period) })

\* _recalc_budget: the budget of the user with exactly this period, if there
\* is one, gets the period's total (ix_budgets_user_period makes it unique)
_recalc_budget(budget_rows, expense_rows, uid, period) ==
  { IF b.user_id = uid /\ b.period = period
      THEN [ b EXCEPT !.spent_amount =
                         PeriodTotal(expense_rows, uid, period) ]
      ELSE b : b \in budget_rows }

\* update_expense: periods = {p for p in [old_period, new_period] if p}

UpdatePeriodsNewOnly(old_period, new_period) == { new_period }

UpdatePeriods(old_period, new_period) == { old_period, new_period }

RECURSIVE RecalcPeriods(_, _, _, _)
\* for p in periods: _recalc_budget(db, uid, p)
RecalcPeriods(budget_rows, expense_rows, uid, periods) ==
  IF periods = {} THEN budget_rows
  ELSE LET p == CHOOSE x \in periods : TRUE
       IN  RecalcPeriods(_recalc_budget(budget_rows, expense_rows, uid, p),
                         expense_rows, uid, periods \ { p })

VARIABLES
  expenses,       \* the rows of the table expenses
  budgets,        \* the rows of the table budgets
  expense_seq,    \* the next expenses.id
  budget_seq,     \* the next budgets.id
  last_request,   \* ghost: the request completed last
  budget_requests \* ghost: the number of requests completed

budget_vars ==
  << expenses, budgets, expense_seq, budget_seq, last_request, budget_requests >>

NoBudgetRequest == [op |-> "none", user_id |-> 0, moved |-> FALSE]

\* both tables empty
BudgetInit ==
  /\ expenses = {}
  /\ budgets = {}
  /\ expense_seq = 1
  /\ budget_seq = 1
  /\ last_request = NoBudgetRequest
  /\ budget_requests = 0

BudgetParked == BudgetInit

Completed_(op, uid, moved) ==
  /\ last_request' = [op |-> op, user_id |-> uid, moved |-> moved]
  /\ budget_requests' = budget_requests + 1

\* POST /api/expenses/ by the user, expense_date given or today's
create_expense(uid, amt, expense_date) ==
  /\ budget_requests < MaxBudgetRequests
  /\ LET new_expense == [id |-> expense_seq, user_id |-> uid,
                         amount |-> amt, expense_date |-> expense_date]
         rows == expenses \cup { new_expense }
     IN  /\ expenses' = rows
         /\ budgets' = _recalc_budget(budgets, rows, uid,
                                      strftime_Ym(expense_date))
  /\ expense_seq' = expense_seq + 1
  /\ Completed_("create_expense", uid, FALSE)
  /\ UNCHANGED budget_seq

\* PUT /api/expenses/{expense_id} by the user; a field that is None is left
\* as it is.  An id that is not the user's is answered 404 and writes nothing.
update_expense(uid, expense_id, amt, expense_date) ==
  /\ budget_requests < MaxBudgetRequests
  /\ \E expense \in expenses :
       /\ expense.id = expense_id
       /\ expense.user_id = uid
       /\ LET old_period == strftime_Ym(expense.expense_date)
              updated == [ expense EXCEPT
                             !.amount = IF amt = None THEN @ ELSE amt[1],
                             !.expense_date =
                               IF expense_date = None THEN @ ELSE expense_date[1] ]
              new_period == strftime_Ym(updated.expense_date)
              rows == (expenses \ { expense }) \cup { updated }
          IN  /\ expenses' = rows
              /\ budgets' = RecalcPeriods(budgets, rows, uid,
                                          UpdatePeriods(old_period, new_period))
              /\ Completed_("update_expense", uid, old_period # new_period)
  /\ UNCHANGED << expense_seq, budget_seq >>

\* DELETE /api/expenses/{expense_id} by the user
delete_expense(uid, expense_id) ==
  /\ budget_requests < MaxBudgetRequests
  /\ \E expense \in expenses :
       /\ expense.id = expense_id
       /\ expense.user_id = uid
       /\ LET period == strftime_Ym(expense.expense_date)
              rows == expenses \ { expense }
          IN  /\ expenses' = rows
              /\ budgets' = _recalc_budget(budgets, rows, uid, period)
  /\ Completed_("delete_expense", uid, FALSE)
  /\ UNCHANGED << expense_seq, budget_seq >>

\* POST /api/budgets/ by the user; a second budget for the user's period is
\* answered 400 and writes nothing
create_budget(uid, period) ==
  /\ budget_requests < MaxBudgetRequests
  /\ ~ \E existing \in budgets :
         existing.user_id = uid /\ existing.period = period
  /\ budgets' = budgets \cup
       { [id |-> budget_seq, user_id |-> uid, period |-> period,
          spent_amount |-> PeriodTotal(expenses, uid, period)] }
  /\ budget_seq' = budget_seq + 1
  /\ Completed_("create_budget", uid, FALSE)
  /\ UNCHANGED << expenses, expense_seq >>

\* DELETE /api/budgets/{budget_id} by the user
delete_budget(uid, budget_id) ==
  /\ budget_requests < MaxBudgetRequests
  /\ \E b \in budgets :
       /\ b.id = budget_id
       /\ b.user_id = uid
       /\ budgets' = budgets \ { b }
  /\ Completed_("delete_budget", uid, FALSE)
  /\ UNCHANGED << expenses, expense_seq, budget_seq >>

\* ------------------------------------------------------------------ RateLimiter
\* RateLimiter.__call__ of app/auth/dependencies.py.  The coroutine has no
\* await in it, so one call is one step.  The clock is time.time() in
\* seconds and never goes back; the limiter with five requests per minute is
\* left out.
MaxLimiterRequests == 5   \* requests per behaviour

MaxLimiterTime == 90      \* the last second of the clock

ClockStep == 30           \* seconds between two readings of the clock

WindowSeconds == 60

Limiters == { "signup_rate_limiter", "password_reset_rate_limiter" }

requests_per_minute ==
  [ signup_rate_limiter |-> 3, password_reset_rate_limiter |-> 2 ]

ClientIps == { "10.0.0.1", "10.0.0.2" }

\* current_time - req_time < 60

FreshInclusive(req_time, now_) == now_ - req_time <= WindowSeconds

Fresh(req_time, now_) == now_ - req_time < WindowSeconds

\* [req_time for req_time in self.requests[client_ip] if ...], or [] for a
\* client_ip that is not in the dict
CleanOld(dict, client_ip, now_) ==
  IF client_ip \in DOMAIN dict
    THEN SelectSeq(dict[client_ip], LAMBDA req_time : Fresh(req_time, now_))
    ELSE << >>

\* self.requests with the list of client_ip replaced
WithList(dict, client_ip, list) ==
  [ k \in DOMAIN dict \cup { client_ip } |->
      IF k = client_ip THEN list ELSE dict[k] ]

VARIABLES
  requests,          \* limiter -> self.requests, a dict of client_ip -> times
  current_time,      \* time.time()
  admitted,          \* ghost: limiter, client_ip -> the times of the requests let through
  rejected,          \* ghost: limiter, client_ip -> the number answered 429
  last_decision,     \* ghost: the request decided last
  limiter_requests   \* ghost: the number of requests decided

limiter_vars ==
  << requests, current_time, admitted, rejected, last_decision,
     limiter_requests >>

NoDecision == [limiter |-> "", client_ip |-> "", status |-> 0]

\* the limiters as constructed at import
LimiterInit ==
  /\ requests = [ l \in Limiters |-> << >> ]
  /\ current_time = 0
  /\ admitted = [ l \in Limiters |-> [ c \in ClientIps |-> << >> ] ]
  /\ rejected = [ l \in Limiters |-> [ c \in ClientIps |-> 0 ] ]
  /\ last_decision = NoDecision
  /\ limiter_requests = 0

LimiterParked == LimiterInit

\* limiter(request) for a request from client_ip
RateLimiterCall(limiter, client_ip) ==
  /\ limiter_requests < MaxLimiterRequests
  /\ LET cleaned == CleanOld(requests[limiter], client_ip, current_time)
         over == Len(cleaned) >= requests_per_minute[limiter]
         list == IF over THEN cleaned ELSE Append(cleaned, current_time)
     IN  /\ requests' = [ requests EXCEPT
                            ![limiter] = WithList(@, client_ip, list) ]
         /\ admitted' = IF over THEN admitted
                        ELSE [ admitted EXCEPT ![limiter][client_ip] =
                                 Append(@, current_time) ]
         /\ rejected' = IF over
                          THEN [ rejected EXCEPT ![limiter][client_ip] = @ + 1 ]
                          ELSE rejected
         /\ last_decision' = [limiter |-> limiter, client_ip |-> client_ip,
                              status |-> IF over THEN 429 ELSE 200]
  /\ limiter_requests' = limiter_requests + 1
  /\ UNCHANGED current_time

\* the clock moves on
LimiterTick ==
  /\ current_time + ClockStep <= MaxLimiterTime
  /\ current_time' = current_time + ClockStep
  /\ UNCHANGED << requests, admitted, rejected, last_decision,
                  limiter_requests >>

\* ----------------------------------------------------------- specifications
\* every variable, and for each machine the variables of the others
all_vars ==
  << vars, main_vars, twice_vars, rule_vars, svc_log, conc_vars, auth_vars,
     budget_vars, limiter_vars >>

beside_orch ==
  << main_vars, twice_vars, rule_vars, svc_log, conc_vars, auth_vars,
     budget_vars, limiter_vars >>

beside_main ==
  << vars, twice_vars, rule_vars, svc_log, conc_vars, auth_vars, budget_vars,
     limiter_vars >>

beside_twice ==
  << main_vars, rule_vars, svc_log, conc_vars, auth_vars, budget_vars,
     limiter_vars >>

beside_rules ==
  << vars, main_vars, twice_vars, svc_log, conc_vars, auth_vars, budget_vars,
     limiter_vars >>

beside_correction ==
  << vars, twice_vars, rule_vars, conc_vars, auth_vars, budget_vars,
     limiter_vars >>

beside_concurrent ==
  << vars, twice_vars, rule_vars, svc_log, auth_vars, budget_vars,
     limiter_vars >>

beside_auth ==
  << vars, main_vars, twice_vars, rule_vars, svc_log, conc_vars, budget_vars,
     limiter_vars >>

beside_budget ==
  << vars, main_vars, twice_vars, rule_vars, svc_log, conc_vars, auth_vars,
     limiter_vars >>

beside_limiter ==
  << vars, main_vars, twice_vars, rule_vars, svc_log, conc_vars, auth_vars,
     budget_vars >>

\* the orchestrator of backend/app/ml_categorizer.py on its own: the
\* application's cache and categorizer stay as constructed
MainParked ==
  /\ MainInit
  /\ local_model = None /\ vectorizer = None
  /\ svc_user_patterns = FreshStore

\* the calls and steps of the orchestrator, for the calls drawn from inputs
OrchNext(inputs) ==
  \/ \E in \in inputs : Call(in) /\ UNCHANGED beside_orch
  \/ \E o \in LocalOutcomes : LocalStage(o) /\ UNCHANGED beside_orch
  \/ ApiStage /\ UNCHANGED beside_orch
  \/ \E r \in HttpResponses, b \in BOOLEAN : HttpAttempt(r, b) /\ UNCHANGED beside_orch
  \/ ApiMerge /\ UNCHANGED beside_orch
  \/ PatternStage /\ UNCHANGED beside_orch
  \/ \E o \in SimilarityOutcomes : SemanticStage(o) /\ UNCHANGED beside_orch
  \/ RulesStage /\ UNCHANGED beside_orch
  \/ LearnStage /\ UNCHANGED beside_orch
  \/ ErrorFallback /\ UNCHANGED beside_orch
  \/ Return /\ UNCHANGED beside_orch

Next == OrchNext(Inputs)

Start == Init /\ MainParked /\ TwiceParked /\ RulesParked /\ LogParked /\ ConcParked /\ AuthParked
    /\ BudgetParked
    /\ LimiterParked

Spec == Start /\ [][Next]_all_vars

\* the application's cached_categorize path on its own: the orchestrator
\* stays as constructed
OrchParked ==
  /\ Init
  /\ classifier = "unset" /\ hf_api_key = FALSE /\ SKLEARN_AVAILABLE = FALSE

\* two descriptions of one user that share their first word only
SharedMerchantInputs ==
  { [description |-> <<"Uber", "ride">>, amount |-> None, user_id |-> Some("user1")],
    [description |-> <<"Uber", "xyzzy">>, amount |-> None, user_id |-> Some("user1")] }

SharedMerchantNext == OrchNext(SharedMerchantInputs)

\* the orchestrator called with those two descriptions
SharedMerchantSpec == Start /\ [][SharedMerchantNext]_all_vars

MainNext ==
  \/ \E req \in Requests, t2 \in { now, now + 1 } :
       CachedCategorizeGet(req, t2) /\ UNCHANGED beside_main
  \/ CategorizeDetailed /\ UNCHANGED beside_main
  \/ CachedCategorizeSet /\ UNCHANGED beside_main
  \/ Tick /\ UNCHANGED beside_main

MainStart == MainInit /\ OrchParked /\ TwiceParked /\ RulesParked /\ LogParked /\ ConcParked /\ AuthParked
    /\ BudgetParked
    /\ LimiterParked

MainSpec == MainStart /\ [][MainNext]_all_vars

TwiceNext ==
  \/ \E in \in AnonymousInputs : TwiceCall(in) /\ UNCHANGED beside_twice
  \/ LocalStage(responses.local) /\ UNCHANGED beside_orch
  \/ ApiStage /\ UNCHANGED beside_orch
  \/ HttpAttempt(responses.http, responses.json) /\ UNCHANGED beside_orch
  \/ ApiMerge /\ UNCHANGED beside_orch
  \/ PatternStage /\ UNCHANGED beside_orch
  \/ SemanticStage(responses.similarity) /\ UNCHANGED beside_orch
  \/ RulesStage /\ UNCHANGED beside_orch
  \/ LearnStage /\ UNCHANGED beside_orch
  \/ ErrorFallback /\ UNCHANGED beside_orch
  \/ TwiceReturn /\ UNCHANGED beside_twice

TwiceStart == TwiceInit /\ MainParked /\ RulesParked /\ LogParked /\ ConcParked /\ AuthParked
    /\ BudgetParked
    /\ LimiterParked

\* two calls of the orchestrator by an anonymous caller, strategies answering
\* the same way in both
TwiceSpec == TwiceStart /\ [][TwiceNext]_all_vars

RulesNext ==
  \/ ScoreCategories /\ UNCHANGED beside_rules
  \/ PickBest /\ UNCHANGED beside_rules

RulesStart == RulesInit /\ OrchParked /\ MainParked /\ TwiceParked /\ LogParked /\ ConcParked /\ AuthParked
    /\ BudgetParked
    /\ LimiterParked

\* each rule scorer called once, by itself
RulesSpec == RulesStart /\ [][RulesNext]_all_vars

CorrectionNext ==
  \/ \E call \in CorrectionCalls : Categorize(call) /\ UNCHANGED beside_correction
  \/ \E c \in Corrections : UpdateUserPatterns(c) /\ UNCHANGED beside_correction

CorrectionStart ==
  CorrectionInit /\ OrchParked /\ TwiceParked /\ RulesParked /\ ConcParked /\ AuthParked
    /\ BudgetParked
    /\ LimiterParked

\* categorize calls and user corrections on one services categorizer
CorrectionSpec == CorrectionStart /\ [][CorrectionNext]_all_vars

ConcurrentNext ==
  \/ \E c \in Callers, t2 \in { now, now + 1 } :
       ConcGet(c, t2) /\ UNCHANGED beside_concurrent
  \/ \E c \in Callers : ConcRun(c) /\ UNCHANGED beside_concurrent
  \/ \E c \in Callers : ConcSet(c) /\ UNCHANGED beside_concurrent
  \/ Tick /\ UNCHANGED << conc_vars, beside_concurrent >>

ConcurrentStart ==
  ConcurrentInit /\ OrchParked /\ TwiceParked /\ RulesParked /\ LogParked /\ AuthParked
    /\ BudgetParked
    /\ LimiterParked

\* two callers of cached_categorize with the same arguments, interleaved
ConcurrentSpec == ConcurrentStart /\ [][ConcurrentNext]_all_vars

AuthNext ==
  \/ \E c \in Clients, token \in issued :
       RefreshLookup(c, token) /\ UNCHANGED beside_auth
  \/ \E c \in Clients : RefreshDelete(c) /\ UNCHANGED beside_auth
  \/ \E c \in Clients : RefreshCreate(c) /\ UNCHANGED beside_auth
  \/ \E token \in issued : Logout(token) /\ UNCHANGED beside_auth
  \/ AuthTick /\ UNCHANGED beside_auth

AuthStart ==
  AuthInit /\ OrchParked /\ MainParked /\ TwiceParked /\ RulesParked
    /\ LogParked /\ ConcParked
    /\ BudgetParked
    /\ LimiterParked

\* refreshes and logouts by two clients that hold user1's refresh tokens
AuthSpec == AuthStart /\ [][AuthNext]_all_vars

BudgetNext ==
  \/ \E uid \in UserIds, amt \in ExpenseAmounts, d \in ExpenseDates :
       create_expense(uid, amt, d) /\ UNCHANGED beside_budget
  \/ \E uid \in UserIds, expense_id \in 1..MaxBudgetRequests,
        amt \in { None } \cup { << a >> : a \in ExpenseAmounts },
        d \in { None } \cup { << x >> : x \in ExpenseDates } :
       update_expense(uid, expense_id, amt, d) /\ UNCHANGED beside_budget
  \/ \E uid \in UserIds, expense_id \in 1..MaxBudgetRequests :
       delete_expense(uid, expense_id) /\ UNCHANGED beside_budget
  \/ \E uid \in UserIds, period \in BudgetPeriods :
       create_budget(uid, period) /\ UNCHANGED beside_budget
  \/ \E uid \in UserIds, budget_id \in 1..MaxBudgetRequests :
       delete_budget(uid, budget_id) /\ UNCHANGED beside_budget

BudgetStart ==
  BudgetInit /\ OrchParked /\ MainParked /\ TwiceParked /\ RulesParked
    /\ LogParked /\ ConcParked /\ AuthParked
    /\ LimiterParked

\* expense and budget requests of two users, one after the other
BudgetSpec == BudgetStart /\ [][BudgetNext]_all_vars

LimiterNext ==
  \/ \E limiter \in Limiters, client_ip \in ClientIps :
       RateLimiterCall(limiter, client_ip) /\ UNCHANGED beside_limiter
  \/ LimiterTick /\ UNCHANGED beside_limiter

LimiterStart ==
  LimiterInit /\ OrchParked /\ MainParked /\ TwiceParked /\ RulesParked
    /\ LogParked /\ ConcParked /\ AuthParked /\ BudgetParked

\* requests from two addresses to two limiters as the clock moves on
LimiterSpec == LimiterStart /\ [][LimiterNext]_all_vars

\* ------------------------------------------------------------- properties
Returned == pc = "done"

\* C1: every result returned for a non-empty description has a category of
\* the configured category list and a confidence within [0,1], whichever
\* stage produced it; every category the rule scorer can score by keyword
\* is one of the list.
C1_ResultInTaxonomy ==
  /\ \A i \in 1..Len(enhanced_patterns) :
       enhanced_patterns[i].category \in Categories
  /\ (Returned /\ ~IsBlank(description)) =>
       /\ result.category \in Categories
       /\ result.confidence >= 0
       /\ result.confidence <= 1000

\* a non-empty description answered by the rule scorer from the amount alone
C1_Witness ==
  /\ Returned
  /\ description = <<"123">>
  /\ producer = "rules"
  /\ result.category = "Housing"

\* C2 (as claimed): for an empty or whitespace-only description the result
\* is the catch-all category with method default and confidence at most
\* 0.5, and no stage has been invoked.
C2_BlankGivesDefault ==
  (Returned /\ IsBlank(description)) =>
    /\ result.category = "Other"
    /\ result.method = "default"
    /\ result.confidence <= 500
    /\ consulted = <<>>

\* C3: whatever the stages do (local model raising or absent, HTTP errors,
\* timeouts, malformed bodies, vectorizer raising), no exception leaves
\* categorize_expense and the call hands back a classification result.
C3_NoExceptionEscapes ==
  /\ pc # "raised"
  /\ Returned =>
       /\ result.category \in Categories
       /\ result.method # "fallback"
       /\ producer # "initial"

\* a call returned although the local model, the remote API and the
\* vectorizer all failed
C3_Witness ==
  /\ Returned
  /\ Failed(consulted) = { "local", "api", "semantic" }

\* a call is between its entry and its return
InCall == pc \notin { "idle", "done", "raised" }

\* C4 (as claimed): within a call the running-best confidence never
\* decreases, and a stage, the rule stage included, replaces the running
\* result only with a strictly more confident one.
C4_BestNeverDecreases ==
  [][ InCall =>
        /\ result'.confidence >= result.confidence
        /\ (result' # result => result'.confidence > result.confidence) ]_vars

\* the stages that are available to a call, in priority order
Available ==
  (IF classifier = "loaded" THEN <<"local">> ELSE <<>>)
    \o (IF hf_api_key THEN <<"api">> ELSE <<>>)
    \o (IF user_id # None THEN <<"pattern">> ELSE <<>>)
    \o (IF SKLEARN_AVAILABLE THEN <<"semantic">> ELSE <<>>)

\* C5 (as claimed): when the earlier stages are unavailable, fail or give no
\* result, every remaining available stage is still consulted, in priority
\* order, before the rule scorer answers.
C5_LaterStagesConsulted ==
  (Returned /\ Answered(consulted) = { "rules" }) =>
    Stages(consulted) = Available \o <<"rules">>

\* all stages before the rule scorer were consulted and none answered
AllStagesExhausted ==
  /\ Stages(consulted) = <<"local", "api", "pattern", "semantic", "rules">>
  /\ Answered(consulted) = { "rules" }

\* an upper bound on the steps a call has left at each position: the
\* stages run in a fixed order and the only loop is the MaxAttempts requests
StepsLeft ==
  CASE pc = "local"      -> MaxAttempts + 8
    [] pc = "api"        -> MaxAttempts + 7
    [] pc = "http"       -> (MaxAttempts - attempts) + 6
    [] pc = "api_return" -> 6
    [] pc = "pattern"    -> 5
    [] pc = "semantic"   -> 4
    [] pc = "rules"      -> 3
    [] pc = "learn"      -> 2
    [] pc = "error"      -> 2
    [] pc = "finish"     -> 1
    [] OTHER             -> 0

\* C6: every call returns, with a result some stage produced: a call in
\* progress can always take its next step, every step brings it strictly
\* closer to its end (every request has a timeout, every sleep is finite,
\* the retry loop is capped), and it ends only by returning. When local ML,
\* the remote API, pattern lookup and semantic matching all yield no result,
\* the rule scorer runs as the last stage and its answer is returned.
C6_AlwaysAnswers ==
  /\ [](InCall => StepsLeft > 0 /\ ENABLED Step)
  /\ [][ InCall => /\ StepsLeft' < StepsLeft
                   /\ (~InCall' => Returned') ]_vars
  /\ [](Returned =>
          /\ producer # "initial"
          /\ (Answered(consulted) \ { "rules" } = {}) =>
               /\ consulted # <<>>
               /\ consulted[Len(consulted)].stage = "rules"
               /\ producer = "rules"
               /\ LET rule_result ==
                        _classify_with_enhanced_rules(clean_description, amount)
                  IN  /\ result.category = rule_result.category
                      /\ result.confidence = rule_result.confidence)

C6_Witness == Returned /\ AllStagesExhausted

\* the method names categorize_expense assigns
CodeMethods ==
  { "local_ml", "api_ml", "pattern_learning", "semantic_similarity",
    "enhanced_rules", "error_fallback" }

\* C7 (as claimed): the method of every returned result is one of local_ml,
\* remote_ml, pattern_learned, semantic_similarity, rule_based, default.
C7_SpecMethodNames ==
  Returned =>
    result.method \in { "local_ml", "remote_ml", "pattern_learned",
                        "semantic_similarity", "rule_based", "default" }

\* C7 (with the names the orchestrator assigns): the method of every
\* returned result is one of local_ml, api_ml, pattern_learning,
\* semantic_similarity, enhanced_rules, error_fallback, and it names the
\* stage whose output the result holds.
C7_MethodNamesProducer ==
  Returned =>
    /\ result.method \in CodeMethods
    /\ result.method = "local_ml" =>
         /\ producer = "local"
         /\ ml_result # None
         /\ result.category = ml_result[1].category
    /\ result.method = "api_ml" =>
         /\ producer = "api"
         /\ api_result # None
         /\ result.category = api_result[1].category
    /\ result.method = "pattern_learning" => producer = "pattern"
    /\ result.method = "semantic_similarity" => producer = "semantic"
    /\ result.method \in { "enhanced_rules", "error_fallback" } =>
         /\ producer = "rules"
         /\ result.category =
              _classify_with_enhanced_rules(clean_description, amount).category
    /\ result.method = "error_fallback" <=> classifier = "unset"

\* a result produced by the pattern stage from an earlier call's learning
C7_Witness ==
  /\ Returned
  /\ result.method = "pattern_learning"
  /\ total_classifications = 2

LocalConfident == ml_result # None /\ ml_result[1].confidence > 600

\* C8: when the local model answers with a top score above 0.6, the result
\* is its top label with method local_ml and no later stage is invoked.
C8_LocalShortCircuits ==
  (Returned /\ LocalConfident) =>
    /\ result.category = ml_result[1].category
    /\ result.confidence = ml_result[1].confidence
    /\ result.method = "local_ml"
    /\ Stages(consulted) = <<"local">>

\* every later stage was available to the call, and none was invoked
C8_Witness ==
  /\ Returned
  /\ LocalConfident
  /\ hf_api_key
  /\ SKLEARN_AVAILABLE
  /\ user_id # None

\* a 200 whose body holds labels and scores
WellFormed(resp) == resp.status = 200 /\ resp.kind = "labels_scores"

\* _classify_with_api has returned, its locals are still in view
ApiReturned == pc = "api_return"

LastResponse == http_log[Len(http_log)]

\* C9: one remote classification sends at most 3 requests; answered 503,
\* 503 and then a well-formed 200 it sends exactly 3 and returns the third
\* response's top label and score; when no attempt succeeds it returns no
\* result.
C9_ThreeAttempts ==
  /\ attempts <= 3
  /\ Len(http_log) = attempts
  /\ ApiReturned =>
       /\ http_log[1].status = 503 => Len(http_log) >= 2
       /\ (Len(http_log) >= 2 /\ http_log[1].status = 503
             /\ http_log[2].status = 503) => Len(http_log) = 3
       /\ WellFormed(LastResponse) =>
            api_result = Some(FromRanking(LastResponse.body))
       /\ (\A i \in 1..Len(http_log) : ~WellFormed(http_log[i])) =>
            api_result = None

C9_Witness ==
  /\ ApiReturned
  /\ [ i \in 1..Len(http_log) |-> http_log[i].status ] = <<503, 503, 200>>
  /\ WellFormed(http_log[3])
  /\ api_result = Some(FromRanking(HighRanking))

\* C10 (as claimed): every 5xx status and every timeout is retried until
\* the attempt cap is reached.
C10_All5xxRetried ==
  ApiReturned =>
    ((LastResponse.status >= 500 \/ LastResponse.kind = "timeout")
       => attempts = MaxAttempts)

\* C10 (amended): a 503 and a request exception (timeout, connection error)
\* are retried until the attempt cap; any other status, 500 and 504
\* included, ends the remote stage with that attempt and with no result.
C10_Only503Retried ==
  /\ \A i \in 1..(Len(http_log) - 1) :
       \/ http_log[i].status = 503
       \/ http_log[i].kind \in { "timeout", "invalid_json" }
  /\ ApiReturned =>
       /\ (LastResponse.status = 503 \/ LastResponse.kind = "timeout")
            => attempts = MaxAttempts
       /\ LastResponse.status \in { 500, 504 } => api_result = None

\* a timeout was retried, the 504 that followed was not
C10_Witness ==
  /\ ApiReturned
  /\ Len(http_log) = 2
  /\ http_log[1].kind = "timeout"
  /\ http_log[2].status = 504
  /\ api_result = None

\* C11 (as claimed): a 200 whose body is undecodable or lacks labels/scores
\* is permanent for the call: no request follows it and the remote stage
\* returns no result.
C11_MalformedIsPermanent ==
  /\ \A i \in 1..(Len(http_log) - 1) : http_log[i].status # 200
  /\ (ApiReturned /\ LastResponse.status = 200 /\ ~WellFormed(LastResponse))
       => api_result = None

LearnedBy(dict, u) == { i \in 1..Len(dict) : dict[i].by = u }

\* C13: after any sequence of classifications the number of learned pattern
\* entries stored for a user never exceeds the cap of 100, in the store the
\* application's categorizer keeps as in the orchestrator's.
C13_LearnedPatternsCapped ==
  \A u \in Users :
    /\ Len(user_patterns[u]) <= HistoryCap
    /\ Cardinality(LearnedBy(svc_user_patterns.merchant_categories, u)) <= HistoryCap
    /\ Cardinality(LearnedBy(svc_user_patterns.description_patterns, u)) <= HistoryCap

\* the part of a pattern store learned from calls of the caller uid (nothing
\* for an anonymous caller)
OwnStore(patterns, uid) ==
  [merchant_categories |->
     SelectSeq(patterns.merchant_categories, LAMBDA e : uid # None /\ e.by = uid[1]),
   description_patterns |->
     SelectSeq(patterns.description_patterns, LAMBDA e : uid # None /\ e.by = uid[1])]

\* the request in flight reaches the strategies of categorize (no cache
\* answered it)
RunsPipeline ==
  /\ mpc = "miss"
  /\ IndexOf(category_cache,
             cache_key(_norm_desc(request[1].description),
                       SvcAmount(request[1].amount))) = 0

\* C14: a pattern learned from a classification made for one user never
\* changes the category computed for another user or for an anonymous
\* caller: the strategies give a call the category they would give it with
\* only the entries learned for its own user identifier in the store.
C14_OwnPatternsOnly ==
  [][ RunsPipeline /\ mpc' = "computed" =>
        detailed'[1].category =
          SvcPipeline(local_model, vectorizer,
                      OwnStore(svc_user_patterns, request[1].user_id),
                      _norm_desc(request[1].description),
                      SvcAmount(request[1].amount),
                      request[1].user_id).category ]_all_vars

\* entries learned for the caller from a different description that has the
\* first word of the one just categorized
SharedMerchantEntries ==
  IF user_id = None \/ clean_description = <<>> THEN {}
  ELSE { i \in 1..Len(user_patterns[user_id[1]]) :
           LET hist == user_patterns[user_id[1]][i].description
           IN  /\ hist # <<>>
               /\ hist # clean_description
               /\ hist[1] = clean_description[1] }

\* C15: when local and remote inference give no result, a call for a user
\* with a description that shares its first word with a different
\* description learned for that user returns the learned category through
\* the pattern-learning stage.
C15_SharedMerchantAnswers ==
  (Returned /\ Answered(consulted) \cap { "local", "api" } = {}) =>
    \A i \in SharedMerchantEntries :
      /\ result.category = user_patterns[user_id[1]][i].category
      /\ result.method = "pattern_learning"

\* the last cached_categorize call has returned an answer that a cache held:
\* the result cache of main.py or the categorizer's own category_cache
ServedFromCache ==
  /\ mpc = "idle"
  /\ served # None
  /\ served[1].by \in { "result_cache", "category_cache" }

\* what categorize_expense_detailed returns for the last request when no
\* cache answers: the strategies run on the present pattern store
FreshResult ==
  Detailed(SvcPipeline(local_model, vectorizer, svc_user_patterns,
                       _norm_desc(request[1].description),
                       SvcAmount(request[1].amount),
                       request[1].user_id).category)

\* C16: a call served from a cache returns the category, confidence and
\* method that a fresh run of the strategies on the same input returns at
\* that moment, whenever the pattern store has not changed since the call
\* that computed the cached answer ended.
C16_CacheTransparent ==
  (ServedFromCache /\ served[1].epoch = epoch) => response[1] = FreshResult

\* C17: cached results are partitioned by user: an answer a cache serves to
\* a call was computed by a call of the same user identifier, or by an
\* anonymous call when the caller is anonymous.
C17_CachePartitionedByUser ==
  ServedFromCache => served[1].origin = request[1].user_id

\* C18 (as claimed, for every cache of classification results on the path):
\* no operation leaves a cache with more stored entries than the configured
\* maximum.
C18_CachesBounded ==
  [][ /\ Len(_ai_cache'.store) <= _ai_cache'.max_items
      /\ category_cache' # category_cache =>
            Len(category_cache') <= _ai_cache'.max_items ]_all_vars

\* C18 (for the result cache of main.py alone): after any sequence of get
\* and set operations it holds at most max_items entries, under distinct
\* keys.
C18_ResultCacheBounded ==
  /\ Len(_ai_cache.store) <= _ai_cache.max_items
  /\ \A i, j \in 1..Len(_ai_cache.store) :
       _ai_cache.store[i].key = _ai_cache.store[j].key => i = j

\* a set has evicted an entry from a full result cache
C18_Witness ==
  /\ _ai_cache.evictions > 0
  /\ Len(_ai_cache.store) = _ai_cache.max_items

\* positions of the result cache whose entries the step removes
Evicted ==
  { i \in 1..Len(_ai_cache.store) :
      IndexOf(_ai_cache'.store, _ai_cache.store[i].key) = 0 }

\* C19: when a set of a new key makes the result cache exceed its maximum,
\* exactly one entry is evicted and no entry was used (set, or returned by a
\* get) longer ago than it; the entry just inserted and every other entry
\* are retained.
C19_EvictsLeastRecentlyUsed ==
  [][ _ai_cache'.evictions > _ai_cache.evictions =>
        LET key == _cat_key(request[1].description, request[1].amount,
                            request[1].user_id)
        IN  /\ IndexOf(_ai_cache.store, key) = 0
            /\ IndexOf(_ai_cache'.store, key) # 0
            /\ Cardinality(Evicted) = 1
            /\ \A i \in Evicted, j \in 1..Len(_ai_cache.store) :
                 _ai_cache.store[i].used <= _ai_cache.store[j].used ]_all_vars

\* the entry that was oldest in the cache survived an eviction because a get
\* returned it after the evicted entry had been set
C19_Witness ==
  /\ _ai_cache.evictions = 1
  /\ _ai_cache.hits = 1
  /\ ops = 3
  /\ mpc = "idle"
  /\ Len(_ai_cache.store) = 2
  /\ _ai_cache.store[1] = [ PreloadedEntry EXCEPT !.used = 2 ]

\* the step is the cache lookup of a cached_categorize call
LooksUp == mpc = "idle" /\ ops' = ops + 1

\* C20: the result cache never returns an entry older, since its last set,
\* than the TTL: a get of such a key is a miss and removes the entry, and a
\* get that returns an entry leaves its timestamp as it was.
C20_NoStaleAnswer ==
  [][ LooksUp =>
        LET key == _cat_key(request'[1].description, request'[1].amount,
                            request'[1].user_id)
            i == IndexOf(_ai_cache.store, key)
            j == IndexOf(_ai_cache'.store, key)
        IN  /\ mpc' = "idle" =>
                 /\ i # 0 /\ j # 0
                 /\ now' - _ai_cache.store[i].ts <= _ai_cache.ttl
                 /\ response' = Some(_ai_cache.store[i].value)
                 /\ _ai_cache'.store[j].ts = _ai_cache.store[i].ts
            /\ (i # 0 /\ now' - _ai_cache.store[i].ts > _ai_cache.ttl) =>
                 /\ mpc' = "miss"
                 /\ j = 0 ]_all_vars

\* the same request three times: computed and set at time 0, returned by a
\* get, and then a miss with the entry removed once its age exceeds the
\* TTL, the earlier get notwithstanding
C20_Witness ==
  /\ mpc = "miss"
  /\ ops = 3
  /\ request[1].description = <<"Ride">>
  /\ classification_stats.total_classifications = 1
  /\ _ai_cache.hits = 1
  /\ _ai_cache.misses = 2
  /\ _ai_cache.store = <<>>
  /\ now = CACHE_TTL_SECONDS + 1
\* C23: an anonymous caller who categorizes the same description and amount
\* twice, the strategies answering the same way both times, gets the same
\* category, confidence and method, after the same strategies were consulted;
\* the first call leaves no learned pattern behind.
C23_AnonymousRepeatable ==
  (pc = "done" /\ first # None /\ total_classifications = 2) =>
    /\ result.category = first[1].result.category
    /\ result.confidence = first[1].result.confidence
    /\ result.method = first[1].result.method
    /\ consulted = first[1].consulted
    /\ \A u \in DOMAIN user_patterns : user_patterns[u] = <<>>

C23_Witness ==
  /\ pc = "done" /\ first # None /\ total_classifications = 2
  /\ classifier = "loaded" /\ hf_api_key /\ SKLEARN_AVAILABLE
  /\ Len(consulted) >= 3
  /\ result.method = "enhanced_rules"

\* C24: when the description matches no keyword of any category, the rule
\* scorer answers the catch-all category Other, whatever the amount.
C24_CatchAllWhateverAmount ==
  (producer = "rules" /\ KeywordScores(enhanced_patterns, clean_description) = <<>>)
    => result.category = "Other"

\* the taxonomy each scorer's class declares
RuleTaxonomy(scorer) ==
  CASE scorer = "app" -> category_list
    [] scorer = "services" -> [ i \in 1..Len(svc_categories) |-> svc_categories[i].category ]
    [] scorer = "ai" -> ai_categories

\* the categories that share the largest score, when it is positive
TiedBest(scores) ==
  { scores[i].category :
      i \in { k \in 1..Len(scores) :
                /\ scores[k].score > 0
                /\ \A j \in 1..Len(scores) : scores[j].score <= scores[k].score } }

\* of a set of categories, the one the taxonomy declares first
FirstDeclared(taxonomy, cats) ==
  taxonomy[CHOOSE i \in 1..Len(taxonomy) :
             /\ taxonomy[i] \in cats
             /\ \A j \in 1..(i - 1) : taxonomy[j] \notin cats]

TieReturned ==
  /\ rule_pc = "returned"
  /\ Cardinality(TiedBest(rule_scores)) >= 2

\* C25: when two or more categories tie for the highest rule score, the
\* scorer returns the one its taxonomy declares first (all three scorers).
C25_FirstDeclaredWins ==
  TieReturned =>
    rule_answer.category =
      FirstDeclared(RuleTaxonomy(rule_call[1].scorer), TiedBest(rule_scores))

\* C25, for the two scorers of the ml_categorizer modules: on a tie the
\* category declared first in self.categories is returned, also when the
\* scores come from the amount alone.
C25_FirstDeclaredWinsMl ==
  (TieReturned /\ rule_call[1].scorer \in { "app", "services" }) =>
    rule_answer.category =
      FirstDeclared(RuleTaxonomy(rule_call[1].scorer), TiedBest(rule_scores))

C25_Witness ==
  /\ TieReturned
  /\ rule_call[1].scorer = "app"
  /\ rule_call[1].description = <<"uber", "food">>
  /\ rule_call[1].amount = Some(5)
  /\ rule_answer.category = "Food & Dining"

\* the largest score of category_scores, as a confidence (score / 5.0)
BestScore(scores) == scores[MaxIndex(scores)].score * 100

AppReturned == rule_pc = "returned" /\ rule_call[1].scorer = "app"

\* C26: a rule-based result carries at most 3 alternatives, each with a
\* confidence in [0,1] that is not greater than the chosen category's score,
\* and none of them is the chosen category.
C26_AlternativesWellFormed ==
  (AppReturned /\ rule_scores # <<>>) =>
    /\ Len(rule_answer.alternatives) <= 3
    /\ \A i \in 1..Len(rule_answer.alternatives) :
         /\ rule_answer.alternatives[i].confidence >= 0
         /\ rule_answer.alternatives[i].confidence <= 1000
         /\ rule_answer.alternatives[i].confidence <= BestScore(rule_scores)
         /\ rule_answer.alternatives[i].category # rule_answer.category

\* C26, without the upper bound 1: at most 2 alternatives, in descending
\* order, none negative, none above the chosen category's score, none of
\* the chosen category.
C26_AlternativesRanked ==
  (AppReturned /\ rule_scores # <<>>) =>
    /\ Len(rule_answer.alternatives) <= 2
    /\ \A i \in 1..Len(rule_answer.alternatives) :
         /\ rule_answer.alternatives[i].confidence >= 0
         /\ rule_answer.alternatives[i].confidence <= BestScore(rule_scores)
         /\ rule_answer.alternatives[i].category # rule_answer.category
         /\ \A j \in 1..(i - 1) :
              /\ rule_answer.alternatives[j].confidence
                   >= rule_answer.alternatives[i].confidence
              /\ rule_answer.alternatives[j].category
                   # rule_answer.alternatives[i].category

C26_Witness ==
  /\ AppReturned
  /\ Len(rule_scores) >= 4
  /\ Len(rule_answer.alternatives) = 2
  /\ rule_answer.confidence = 700
  /\ rule_answer.alternatives[1].confidence > 1000

\* a learn operation: a categorize call that reached
\* _learn_from_classification, or a correction
LearnOps == { i \in 1..Len(svc_log) : svc_log[i].stage # "cache" }

\* the first word of the description the operation was about
Token(i) == svc_log[i].description[1]

\* the entries of merchant_categories under token m
MerchantEntries(m) ==
  { k \in 1..Len(svc_user_patterns.merchant_categories) :
      svc_user_patterns.merchant_categories[k].key = m }

\* the last learn operation about a token, after an earlier one by the same
\* user that assigned it another category
LastOfTwo(i, j) ==
  /\ i \in LearnOps /\ j \in LearnOps /\ i < j
  /\ Token(i) = Token(j)
  /\ svc_log[i].user_id = svc_log[j].user_id
  /\ svc_log[i].category # svc_log[j].category
  /\ \A k \in LearnOps : k > j => Token(k) # Token(j)

\* the store holds one entry for the token of operation j, with its
\* category, and a lookup of the token returns it
HoldsLast(j) ==
  /\ Cardinality(MerchantEntries(Token(j))) = 1
  /\ \A k \in MerchantEntries(Token(j)) :
       svc_user_patterns.merchant_categories[k].category = svc_log[j].category
  /\ SvcPatterns(svc_user_patterns, << Token(j) >>, svc_log[j].user_id)
       = Some(svc_log[j].category)

\* C22: of two learn operations by one user that assign different categories
\* to one merchant token, the one applied last wins: the store holds exactly
\* one entry for the token, with that category, and a lookup returns it.
C22_LastLearnWins ==
  \A i, j \in 1..Len(svc_log) : LastOfTwo(i, j) => HoldsLast(j)

\* C22, for the operations that write the merchant key (corrections, and
\* classifications of a description whose first word has more than 3
\* characters): the one applied last wins.
C22_LastWriterWins ==
  \A i, j \in 1..Len(svc_log) :
    (LastOfTwo(i, j) /\ svc_log[i].merchant # None /\ svc_log[j].merchant # None)
      => HoldsLast(j)

C22_Witness ==
  /\ Len(svc_log) = 2
  /\ LastOfTwo(1, 2)
  /\ svc_log[1].op = "update" /\ svc_log[2].op = "update"
  /\ svc_log[1].category = "Travel" /\ svc_log[2].category = "Shopping"
  /\ HoldsLast(2)

\* position i of the log is a correction and j the next categorize call by
\* the same user with the same description
NextCallAfterCorrection(i, j) ==
  /\ i < j
  /\ svc_log[i].op = "update"
  /\ svc_log[j].op = "categorize"
  /\ svc_log[j].user_id = svc_log[i].user_id
  /\ svc_log[j].description = svc_log[i].description
  /\ \A k \in (i + 1)..(j - 1) :
       ~(/\ svc_log[k].op = "categorize"
         /\ svc_log[k].user_id = svc_log[i].user_id
         /\ svc_log[k].description = svc_log[i].description)
  /\ \A k \in (i + 1)..(j - 1) : svc_log[k].op # "update"

\* C27: with no local model, the categorize call that follows a user's
\* correction of a description, by that user and with that description,
\* returns the corrected category, also when the description had been
\* categorized before the correction.
C27_CorrectionTakesEffect ==
  local_model = None =>
    \A i, j \in 1..Len(svc_log) :
      NextCallAfterCorrection(i, j) => svc_log[j].category = svc_log[i].category

\* C27, for a description and amount that were not categorized before the
\* correction, on a store that held no merchant before it.
C27_CorrectionOfNewDescription ==
  (/\ local_model = None
   /\ Len(svc_log) >= 2
   /\ NextCallAfterCorrection(1, 2))
    => svc_log[2].category = svc_log[1].category

C27_Witness ==
  /\ local_model = None
  /\ Len(svc_log) = 2
  /\ NextCallAfterCorrection(1, 2)
  /\ svc_log[1].category = "Shopping"
  /\ svc_log[2].stage = "pattern_based"
  /\ svc_log[2].category = "Shopping"

BothReturned == \A c \in Callers : calls[c].pc = "returned"

SharedKey ==
  _cat_key(shared[1].description, shared[1].amount, shared[1].user_id)

\* the entries of the result cache under the key both callers use
SharedEntries ==
  { i \in 1..Len(_ai_cache.store) : _ai_cache.store[i].key = SharedKey }

\* C21: when two cached_categorize calls on one never-seen key have both
\* returned, whatever the interleaving of their get, categorize and set
\* steps, each has a result, the cache holds exactly one entry for the key,
\* and that entry is the result of the call whose set ran last.
C21_OneEntryLastSetWins ==
  BothReturned =>
    /\ \A c \in Callers : calls[c].response # None
    /\ Cardinality(SharedEntries) = 1
    /\ set_order # <<>>
    /\ \A i \in SharedEntries :
         /\ Some(_ai_cache.store[i].value) = calls[set_order[Len(set_order)]].response
         /\ _ai_cache.store[i].value \in
              [category : SvcCategories, confidence : { WrapperConfidence },
               method : { "enhanced_ml" }]

\* both callers missed, both ran the categorizer and both stored
C21_Witness ==
  /\ BothReturned
  /\ set_order = << "b", "a" >>
  /\ Cardinality(SharedEntries) = 1
  /\ classification_stats.cache_hits = 1

\* the refreshes answered 200
Refreshed == { i \in 1..Len(auth_log) :
                 auth_log[i].op = "refresh" /\ auth_log[i].status = 200 }

\* C28: a refresh token is single-use.  A refresh made with a token after a
\* refresh or a logout with that token has completed is answered 401, and no
\* two refreshes with one token are both answered 200.
C28_RefreshTokenSingleUse ==
  /\ \A i \in Refreshed : ~auth_log[i].late
  /\ \A i, j \in Refreshed : auth_log[i].token = auth_log[j].token => i = j

\* the budgets whose period is the text of a month, YYYY-MM
MonthBudgets(rows) == { b \in rows : Len(b.period) = 3 }

SpentMatches(b, expense_rows) ==
  b.spent_amount = PeriodTotal(expense_rows, b.user_id, b.period)

\* C29: after any completed sequence of expense create, update (moving an
\* expense to another month included) and delete requests and budget create
\* requests, every existing budget's spent_amount is the sum of its user's
\* expense amounts whose date falls in the budget's period.
C29_SpentMatchesExpenses ==
  \A b \in budgets : SpentMatches(b, expenses)

\* C29, for the budgets whose period is a month: after every request each of
\* them holds the sum of its user's expense amounts dated in that month, and
\* the request leaves the budgets of the users other than the requester as
\* they were.
C29_MonthBudgetsFollowExpenses ==
  [][ budget_requests' > budget_requests =>
        /\ \A b \in MonthBudgets(budgets') : SpentMatches(b, expenses')
        /\ \A b \in budgets \cup budgets' :
             b.user_id # last_request'.user_id =>
               b \in budgets /\ b \in budgets' ]_all_vars

\* the user's only expense was moved out of a month the user has a budget
\* for, which is back at 0, while the other user has a budget too
C29_Witness ==
  /\ last_request.op = "update_expense"
  /\ last_request.moved
  /\ \E b1 \in MonthBudgets(budgets), b3 \in budgets, e \in expenses :
       /\ b1.user_id = last_request.user_id
       /\ e.user_id = last_request.user_id
       /\ strftime_Ym(e.expense_date) # b1.period
       /\ b1.spent_amount = 0
       /\ b3.user_id # last_request.user_id

\* the number of the times that lie in the 60 seconds that end at second t,
\* second t - 60 itself left out
InWindow(times, t) ==
  Cardinality({ i \in 1..Len(times) : times[i] <= t /\ t - times[i] < WindowSeconds })

\* no 60 seconds hold more admitted requests than the limiter allows
WindowsBounded(log) ==
  \A l \in Limiters, c \in ClientIps, t \in 0..MaxLimiterTime :
    InWindow(log[l][c], t) <= requests_per_minute[l]

ListOf(dict, client_ip) ==
  IF client_ip \in DOMAIN dict THEN dict[client_ip] ELSE << >>

\* C30: for each RateLimiter and each client IP, every 60-second window
\* holds at most requests_per_minute admitted requests; a request is let
\* through exactly when fewer than requests_per_minute requests of that IP
\* were let through by that limiter in the last 60 seconds, so a request
\* answered 429 is not recorded and delays nothing (the list kept for the
\* IP holds the admitted requests of the last 60 seconds and no other); and
\* a request changes nothing that another IP or another limiter holds.
C30_SlidingWindowPerIp ==
  [][ limiter_requests' > limiter_requests =>
        LET d == last_decision'
        IN  /\ WindowsBounded(admitted')
            /\ d.status = 200 <=>
                 InWindow(admitted[d.limiter][d.client_ip], current_time)
                   < requests_per_minute[d.limiter]
            /\ d.status = 429 => admitted' = admitted
            /\ requests'[d.limiter][d.client_ip] =
                 SelectSeq(admitted'[d.limiter][d.client_ip],
                           LAMBDA t : current_time - t < WindowSeconds)
            /\ \A l \in Limiters, c \in ClientIps :
                 << l, c >> # << d.limiter, d.client_ip >> =>
                   /\ ListOf(requests'[l], c) = ListOf(requests[l], c)
                   /\ admitted'[l][c] = admitted[l][c] ]_all_vars

\* an address was refused by the password reset limiter, was let through
\* again 60 seconds after its first request, and meanwhile the other address
\* was let through by the same limiter
C30_Witness ==
  /\ rejected["password_reset_rate_limiter"]["10.0.0.1"] > 0
  /\ admitted["password_reset_rate_limiter"]["10.0.0.1"] = << 0, 0, 60 >>
  /\ admitted["password_reset_rate_limiter"]["10.0.0.2"] # << >>
  /\ last_decision.status = 200

====
